---- MODULE Spec2Model ----
(***************************************************************************)
(* Combat Reflex: the session scheduler of TrainingApp (App.jsx), the      *)
(* training reducer of TrainingContext and the timers they schedule.       *)
(*                                                                         *)
(* One action of the model is one browser task: a timer callback or a user *)
(* handler, followed by the React render it causes and the effects of that *)
(* render (cleanups of the effects whose dependencies changed, then their  *)
(* bodies, repeated while the effects dispatch further updates).           *)
(* Time is explicit: every pending timer carries the milliseconds left     *)
(* until it is due, timers due at the same instant fire in creation order. *)
(*                                                                         *)
(* Specifications: Spec (the scheduler, browser without Wake Lock API),    *)
(* SpecWake (single-mode programs with useWakeLock), SpecStop (single-mode *)
(* programs with the hold-to-stop gesture of TrainingScreen), SpecHistory  *)
(* and SpecReducer (the history and the reducer of TrainingContext under   *)
(* the calls of the context's API).                                        *)
(***************************************************************************)
EXTENDS Integers, Sequences, FiniteSets, TLC

(***************************************************************************)
(* Program constants                                                       *)
(***************************************************************************)
COUNTDOWN_START_DELAY_MS == 100
COUNTDOWN_TICK_MS == 1000
COUNTDOWN_SETTLE_MS == 800
COUNTDOWN_FROM == 3
SINGLE_DISPLAY_MS == 800
COMBO_DISPLAY_MS == 300
BREAK_TICK_MS == 1000
BREAK_WARNING_AT == 5
BREAK_FALLBACK_MS == 30000
BREAK_DURATION_MS == 30000
MAX_SESSIONS == 4
MAX_HISTORY_ENTRIES == 10
HOLD_MS == 1000

TRAINING_MODES == {"punches", "kicks", "both"}
TRAINING_TYPES == {"single", "combo"}
TRAINING_PHASES ==
  {"IDLE", "COUNTDOWN", "TRAINING", "MID_REST", "SESSION_END", "BREAK", "COMPLETE"}

DifficultyIds == {"very-easy", "easy", "normal", "hard", "very-hard"}

DIFFICULTIES ==
  [id \in DifficultyIds |->
     CASE id = "very-easy" -> [minInterval |-> 2500, maxInterval |-> 4000, totalHits |-> 18]
       [] id = "easy"      -> [minInterval |-> 1500, maxInterval |-> 2500, totalHits |-> 30]
       [] id = "normal"    -> [minInterval |-> 1000, maxInterval |-> 1800, totalHits |-> 45]
       [] id = "hard"      -> [minInterval |-> 600,  maxInterval |-> 1200, totalHits |-> 68]
       [] id = "very-hard" -> [minInterval |-> 300,  maxInterval |-> 800,  totalHits |-> 92]]

Range(lo, hi) == [min |-> lo, max |-> hi]

COMBO_SETTINGS ==
  [id \in DifficultyIds |->
     CASE id = "very-easy" -> [comboSize |-> Range(1, 2), strikeInterval |-> Range(600, 800),
                               restBetweenCombos |-> Range(5000, 6000), totalCombos |-> 9]
       [] id = "easy"      -> [comboSize |-> Range(1, 3), strikeInterval |-> Range(500, 700),
                               restBetweenCombos |-> Range(4000, 5000), totalCombos |-> 12]
       [] id = "normal"    -> [comboSize |-> Range(1, 3), strikeInterval |-> Range(400, 600),
                               restBetweenCombos |-> Range(3000, 4000), totalCombos |-> 15]
       [] id = "hard"      -> [comboSize |-> Range(1, 4), strikeInterval |-> Range(300, 500),
                               restBetweenCombos |-> Range(2000, 3000), totalCombos |-> 17]
       [] id = "very-hard" -> [comboSize |-> Range(1, 5), strikeInterval |-> Range(200, 400),
                               restBetweenCombos |-> Range(1500, 2500), totalCombos |-> 20]]

\* getComboSettings(difficultyId): the BUILT-IN combo settings of that id
getComboSettings(difficultyId) == COMBO_SETTINGS[difficultyId]

\* createDifficultySettings: one difficulty of the default profile
createDifficultySettings(id) ==
  [id |-> id,
   minInterval |-> DIFFICULTIES[id].minInterval,
   maxInterval |-> DIFFICULTIES[id].maxInterval,
   totalHits |-> Range(DIFFICULTIES[id].totalHits, DIFFICULTIES[id].totalHits),
   combo |-> COMBO_SETTINGS[id],
   rest |-> [enabled |-> TRUE, breakDuration |-> BREAK_DURATION_MS]]

(***************************************************************************)
(* profileUtils. A profile is a record; its difficulties are a function    *)
(* of the difficulty id (the source keeps an array and finds by id).       *)
(* createdAt and updatedAt are left out.                                   *)
(***************************************************************************)
DEFAULT_PROFILE_ID == "default"

\* the order of the DIFFICULTIES array
DifficultyOrder == <<"very-easy", "easy", "normal", "hard", "very-hard">>

\* RECOMMENDED_VALUES: the ranges validateProfile reads
RECOMMENDED_VALUES ==
  [id \in DifficultyIds |->
     CASE id = "very-easy" -> [minInterval |-> Range(2000, 3000), maxInterval |-> Range(3500, 5000)]
       [] id = "easy"      -> [minInterval |-> Range(1200, 1800), maxInterval |-> Range(2200, 3000)]
       [] id = "normal"    -> [minInterval |-> Range(800, 1200),  maxInterval |-> Range(1500, 2000)]
       [] id = "hard"      -> [minInterval |-> Range(500, 800),   maxInterval |-> Range(1000, 1400)]
       [] id = "very-hard" -> [minInterval |-> Range(200, 400),   maxInterval |-> Range(600, 1000)]]

\* createDefaultProfile(): the read-only built-in profile
createDefaultProfile ==
  [id |-> DEFAULT_PROFILE_ID, name |-> "Default", isDefault |-> TRUE, isReadOnly |-> TRUE,
   difficulties |-> [id \in DifficultyIds |-> createDifficultySettings(id)]]

\* createNewProfile(name); uuid is the value generateUUID() returns
createNewProfile(name, uuid) ==
  [id |-> uuid, name |-> name, isDefault |-> FALSE, isReadOnly |-> FALSE,
   difficulties |-> createDefaultProfile.difficulties]

\* name.trim() of the names the model uses
Trim(name) == IF name = " " THEN "" ELSE name

\* the messages validateProfile pushes for one difficulty
IfError(cond, id, text) == IF cond THEN <<[difficulty |-> id, message |-> text]>> ELSE <<>>
DifficultyErrors(diff) ==
  IfError(diff.minInterval <= 0, diff.id, "minInterval must be positive")
  \o IfError(diff.maxInterval <= 0, diff.id, "maxInterval must be positive")
  \o IfError(diff.minInterval > diff.maxInterval, diff.id,
             "minInterval cannot be greater than maxInterval")
  \o IfError(diff.totalHits.min <= 0 \/ diff.totalHits.max <= 0, diff.id,
             "totalHits must be positive")
  \o IfError(diff.totalHits.min > diff.totalHits.max, diff.id,
             "totalHits min cannot be greater than max")
  \o IfError(diff.rest.breakDuration < 0, diff.id, "breakDuration cannot be negative")
DifficultyWarnings(diff) ==
  IfError(diff.minInterval < RECOMMENDED_VALUES[diff.id].minInterval.min, diff.id,
          "minInterval is below recommended minimum")
  \o IfError(diff.minInterval > RECOMMENDED_VALUES[diff.id].minInterval.max, diff.id,
             "minInterval is above recommended maximum")
  \o IfError(diff.maxInterval < RECOMMENDED_VALUES[diff.id].maxInterval.min, diff.id,
             "maxInterval is below recommended minimum")
  \o IfError(diff.maxInterval > RECOMMENDED_VALUES[diff.id].maxInterval.max, diff.id,
             "maxInterval is above recommended maximum")

\* profile.difficulties.forEach, from the i-th difficulty on
RECURSIVE ErrorsFrom(_, _)
ErrorsFrom(profile, i) ==
  IF i > Len(DifficultyOrder) THEN <<>>
  ELSE DifficultyErrors(profile.difficulties[DifficultyOrder[i]]) \o ErrorsFrom(profile, i + 1)
RECURSIVE WarningsFrom(_, _)
WarningsFrom(profile, i) ==
  IF i > Len(DifficultyOrder) THEN <<>>
  ELSE DifficultyWarnings(profile.difficulties[DifficultyOrder[i]])
       \o WarningsFrom(profile, i + 1)

\* validateProfile(profile): {errors, warnings}
validateProfile(profile) ==
  [errors |-> IfError(profile.name = "" \/ Trim(profile.name) = "", "profile",
                      "Profile name is required")
              \o ErrorsFrom(profile, 1),
   warnings |-> WarningsFrom(profile, 1)]

\* A field of stored (parsed) data that may be missing: <<>> is undefined
\* (or null), <<v>> is the value v.
Undefined == <<>>
Some(v) == <<v>>
\* custom ?? fallback
Nullish(custom, fallback) == IF custom = Undefined THEN fallback ELSE custom[1]
\* a variant of mergeRange that takes the whole built-in range unless both
\* ends are set
mergeRangeWhole(custom, defaultRange) ==
  IF custom = Undefined \/ custom[1].min = Undefined \/ custom[1].max = Undefined
  THEN defaultRange
  ELSE [min |-> custom[1].min[1], max |-> custom[1].max[1]]
\* custom ? {min: custom.min ?? d.min, max: custom.max ?? d.max} : {...d}
mergeRange(custom, defaultRange) ==
  IF custom = Undefined THEN defaultRange
  ELSE [min |-> Nullish(custom[1].min, defaultRange.min),
        max |-> Nullish(custom[1].max, defaultRange.max)]
\* partial.difficulties?.find(d => d.id === id)
RECURSIVE FindDifficulty(_, _)
FindDifficulty(list, id) ==
  IF list = <<>> THEN Undefined
  ELSE IF Head(list).id = id THEN Some(Head(list)) ELSE FindDifficulty(Tail(list), id)
\* mergeWithDefaults: one difficulty
mergeDifficulty(customDiff, defaultDiff) ==
  IF customDiff = Undefined THEN defaultDiff
  ELSE [id |-> customDiff[1].id,
        minInterval |-> Nullish(customDiff[1].minInterval, defaultDiff.minInterval),
        maxInterval |-> Nullish(customDiff[1].maxInterval, defaultDiff.maxInterval),
        totalHits |-> mergeRange(customDiff[1].totalHits, defaultDiff.totalHits),
        combo |-> IF customDiff[1].combo = Undefined THEN defaultDiff.combo
                  ELSE [comboSize |-> mergeRange(customDiff[1].combo[1].comboSize,
                                                 defaultDiff.combo.comboSize),
                        strikeInterval |-> mergeRange(customDiff[1].combo[1].strikeInterval,
                                                      defaultDiff.combo.strikeInterval),
                        restBetweenCombos |-> mergeRange(customDiff[1].combo[1].restBetweenCombos,
                                                         defaultDiff.combo.restBetweenCombos),
                        totalCombos |-> Nullish(customDiff[1].combo[1].totalCombos,
                                                defaultDiff.combo.totalCombos)],
        rest |-> IF customDiff[1].rest = Undefined THEN defaultDiff.rest
                 ELSE [enabled |-> Nullish(customDiff[1].rest[1].enabled,
                                           defaultDiff.rest.enabled),
                       breakDuration |-> Nullish(customDiff[1].rest[1].breakDuration,
                                                 defaultDiff.rest.breakDuration)]]
\* mergeWithDefaults(partial); uuid is the value generateUUID() would return.
\* A missing id or name is "" (both are falsy), a missing list is <<>>.
mergeWithDefaults(partial, uuid) ==
  [id |-> IF partial.id = "" THEN uuid ELSE partial.id,
   name |-> IF partial.name = "" THEN "Unnamed Profile" ELSE partial.name,
   isDefault |-> Nullish(partial.isDefault, FALSE),
   isReadOnly |-> Nullish(partial.isReadOnly, FALSE),
   difficulties |-> [id \in DifficultyIds |->
                       mergeDifficulty(FindDifficulty(partial.difficulties, id),
                                       createDefaultProfile.difficulties[id])]]

\* JSON.parse(JSON.stringify(profile)): a profile of the state as the
\* storage gives it back, every field present
StoredRange(r) == Some([min |-> Some(r.min), max |-> Some(r.max)])
StoredDifficulty(d) ==
  [id |-> d.id, minInterval |-> Some(d.minInterval), maxInterval |-> Some(d.maxInterval),
   totalHits |-> StoredRange(d.totalHits),
   combo |-> Some([comboSize |-> StoredRange(d.combo.comboSize),
                   strikeInterval |-> StoredRange(d.combo.strikeInterval),
                   restBetweenCombos |-> StoredRange(d.combo.restBetweenCombos),
                   totalCombos |-> Some(d.combo.totalCombos)]),
   rest |-> Some([enabled |-> Some(d.rest.enabled),
                  breakDuration |-> Some(d.rest.breakDuration)])]
toStored(profile) ==
  [id |-> profile.id, name |-> profile.name,
   isDefault |-> Some(profile.isDefault), isReadOnly |-> Some(profile.isReadOnly),
   difficulties |-> [i \in DOMAIN DifficultyOrder |->
                       StoredDifficulty(profile.difficulties[DifficultyOrder[i]])]]

(***************************************************************************)
(* Bounds of the model                                                     *)
(***************************************************************************)
MaxSessions == 2        \* numberOfSessions is drawn from 1..MaxSessions
MaxHits == 2            \* a custom profile's totalHits range lies in 1..MaxHits
MaxComboSize == 2       \* a custom profile's comboSize range lies in 1..MaxComboSize
LowCombos == 2          \* a custom totalCombos below the built-in one
MaxPlanned == 2         \* sessions of the programs started in one behaviour, in total
MaxRecorded == 12       \* sessions recorded in one behaviour of SpecHistory
MaxLow == 4             \* the lower ends of the ranges the generators are sampled on: 1..MaxLow
MaxWidth == 4           \* max - min of those ranges: 0..MaxWidth
RandomSteps == 8        \* Math.random() takes the values 0/RandomSteps .. (RandomSteps-1)/RandomSteps

\* no generator sampled
NoSample == [fn |-> "none", results |-> {}]

RECURSIVE Gcd(_, _)
Gcd(a, b) == IF b = 0 THEN a ELSE Gcd(b, a % b)

\* The clock advances in steps of the greatest common divisor of the
\* program's fixed delays; the profile's millisecond values and the random
\* draws of the model are multiples of it.
Granule ==
  Gcd(Gcd(COUNTDOWN_START_DELAY_MS, COUNTDOWN_TICK_MS),
      Gcd(Gcd(COUNTDOWN_SETTLE_MS, SINGLE_DISPLAY_MS), Gcd(COMBO_DISPLAY_MS, BREAK_TICK_MS)))

VARIABLES
  phase, currentSession, hitsCompleted, combosCompleted,   \* trainingReducer state
  mode, trainingType, numberOfSessions, difficulty,        \* trainingReducer state (configuration)
  activeProfile,        \* ProfileProvider: the active profile (its difficulties by id)
  sessionHistory,       \* TrainingProvider: persisted history, newest first
  currentAction, sessionTotalHits, countdownValue, breakTimeRemaining,  \* TrainingApp useState
  isReady, audioInit,   \* useAudio: isReady; an initAudio() call still awaiting resume()
  timers,               \* pending setTimeout timers, in creation order
  warningPlayed,        \* warningPlayedRef
  planned,              \* sessions of the programs started so far, in total
  lastEvent,            \* the task that produced this state
  countdownTicks,       \* playCountdown() calls of the countdown in progress
  warnings,             \* playWarning() calls of the break in progress
  isSupported,          \* useWakeLock: 'wakeLock' in navigator
  isLocked,             \* useWakeLock: isLocked
  wakeLockRef,          \* useWakeLock: wakeLockRef.current holds a sentinel
  sentinels,            \* the wake lock sentinels of the page the browser has not released
  wakeRequests,         \* navigator.wakeLock.request() promises not yet settled
  wakeReleasing,        \* a releaseWakeLock() call awaiting release()
  visible,              \* document.visibilityState = 'visible'
  revoked,              \* the browser has released a sentinel and no request was made since
  showStopConfirm,      \* TrainingScreen: showStopConfirm
  holdProgress,         \* TrainingScreen: holdProgress
  holdElapsed,          \* Date.now() - holdStartRef.current, -1 while the ref is null
  trainingStartTime,    \* TrainingApp useState: when the program started
  trainingEndTime,      \* TrainingApp useState: when the program ended
  mounted,              \* ProfileProvider is mounted
  profiles,             \* ProfileProvider: profiles
  activeProfileId,      \* ProfileProvider: activeProfileId
  storedProfiles,       \* localStorage 'combat-reflex-profiles', parsed (<<>>: no item)
  storedActive,         \* localStorage 'combat-reflex-active-profile' ("": no item)
  created,              \* generateUUID() calls so far
  editingProfile,       \* ProfileEditor: editingProfile while open (<<>>: closed)
  errors,               \* ProfileEditor: errors
  edits,                \* change handlers called since the editor opened (hasChanges: > 0)
  saves,                \* handleSave calls that saved so far
  preferences,          \* TrainingProvider: useLocalStorage('combat-reflex-preferences')
  storedPreferences,    \* localStorage 'combat-reflex-preferences', parsed (<<>>: no item)
  storedHistory,        \* localStorage 'combat-reflex-session-history', parsed (<<>>: no item)
  corrupt,              \* the keys of localStorage whose text JSON.parse rejects
  sampled               \* a random generator sampled over every value of Math.random()

vars ==
  <<phase, currentSession, hitsCompleted, combosCompleted, mode, trainingType,
    numberOfSessions, difficulty, activeProfile, sessionHistory, currentAction,
    sessionTotalHits, countdownValue, breakTimeRemaining, isReady, audioInit, timers,
    warningPlayed, planned, lastEvent, countdownTicks, warnings,
    isSupported, isLocked, wakeLockRef, sentinels, wakeRequests, wakeReleasing, visible,
    revoked, showStopConfirm, holdProgress, holdElapsed,
    trainingStartTime, trainingEndTime,
    mounted, profiles, activeProfileId, storedProfiles, storedActive, created,
    editingProfile, errors, edits, saves,
    preferences, storedPreferences, storedHistory, corrupt, sampled>>

\* the state of ProfileProvider and ProfileEditor, which the tasks of the
\* scheduler leave alone
profileVars ==
  <<mounted, profiles, activeProfileId, storedProfiles, storedActive, created,
    editingProfile, errors, edits, saves>>
\* ProfileEditor
editorVars == <<editingProfile, errors, edits, saves>>

\* useLocalStorage
storageVars == <<preferences, storedPreferences, storedHistory, corrupt>>
\* JSON.stringify of a value without undefined fields, as the item stored
Stringify(value) == <<value>>

\* The whole state as one record: the handlers below are functions on it.
\* written: the keys window.localStorage.setItem was called with in the task
Cur ==
  [phase |-> phase, currentSession |-> currentSession, hitsCompleted |-> hitsCompleted,
   combosCompleted |-> combosCompleted, mode |-> mode, trainingType |-> trainingType,
   numberOfSessions |-> numberOfSessions, difficulty |-> difficulty,
   activeProfile |-> activeProfile, sessionHistory |-> sessionHistory,
   currentAction |-> currentAction, sessionTotalHits |-> sessionTotalHits,
   countdownValue |-> countdownValue, breakTimeRemaining |-> breakTimeRemaining,
   isReady |-> isReady, audioInit |-> audioInit, timers |-> timers,
   warningPlayed |-> warningPlayed, planned |-> planned, countdownTicks |-> countdownTicks,
   warnings |-> warnings,
   isSupported |-> isSupported, isLocked |-> isLocked, wakeLockRef |-> wakeLockRef,
   sentinels |-> sentinels, wakeRequests |-> wakeRequests, wakeReleasing |-> wakeReleasing,
   visible |-> visible, revoked |-> revoked,
   showStopConfirm |-> showStopConfirm, holdProgress |-> holdProgress,
   holdElapsed |-> holdElapsed,
   trainingStartTime |-> trainingStartTime, trainingEndTime |-> trainingEndTime,
   preferences |-> preferences, written |-> {}]

\* the state s a task has produced becomes the state of the model
CommitState(s, ev) ==
  /\ phase' = s.phase
  /\ currentSession' = s.currentSession
  /\ hitsCompleted' = s.hitsCompleted
  /\ combosCompleted' = s.combosCompleted
  /\ mode' = s.mode
  /\ trainingType' = s.trainingType
  /\ numberOfSessions' = s.numberOfSessions
  /\ difficulty' = s.difficulty
  /\ activeProfile' = s.activeProfile
  /\ sessionHistory' = s.sessionHistory
  /\ currentAction' = s.currentAction
  /\ sessionTotalHits' = s.sessionTotalHits
  /\ countdownValue' = s.countdownValue
  /\ breakTimeRemaining' = s.breakTimeRemaining
  /\ isReady' = s.isReady
  /\ audioInit' = s.audioInit
  /\ timers' = s.timers
  /\ warningPlayed' = s.warningPlayed
  /\ planned' = s.planned
  /\ countdownTicks' = s.countdownTicks
  /\ warnings' = s.warnings
  /\ isSupported' = s.isSupported
  /\ isLocked' = s.isLocked
  /\ wakeLockRef' = s.wakeLockRef
  /\ sentinels' = s.sentinels
  /\ wakeRequests' = s.wakeRequests
  /\ wakeReleasing' = s.wakeReleasing
  /\ visible' = s.visible
  /\ revoked' = s.revoked
  /\ showStopConfirm' = s.showStopConfirm
  /\ holdProgress' = s.holdProgress
  /\ holdElapsed' = s.holdElapsed
  /\ trainingStartTime' = s.trainingStartTime
  /\ trainingEndTime' = s.trainingEndTime
  /\ lastEvent' = ev
  /\ preferences' = s.preferences
  /\ storedPreferences' = IF "preferences" \in s.written THEN Stringify(s.preferences)
                          ELSE storedPreferences
  /\ storedHistory' = IF "history" \in s.written THEN Stringify(s.sessionHistory)
                      ELSE storedHistory
  /\ corrupt' = corrupt \ s.written
  /\ UNCHANGED sampled
  /\ UNCHANGED profileVars

\* a task ends: its result is computed once and committed
Commit(s, ev) == \E after \in {s} : CommitState(after, ev)

(***************************************************************************)
(* Timers: setTimeout / clearTimeout and the refs that hold the handles.   *)
(* A timer's ref field names the ref that currently holds its handle       *)
(* ("none": no ref holds it, so no clearTimeout can reach it).             *)
(***************************************************************************)
Timer(kind, delay, ref, val) == [kind |-> kind, left |-> delay, ref |-> ref, val |-> val]

\* ref.current = setTimeout(cb, delay): the handle the ref held before is overwritten
setTimeoutRef(ts, kind, delay, ref, val) ==
  Append([i \in DOMAIN ts |-> IF ts[i].ref = ref THEN [ts[i] EXCEPT !.ref = "none"] ELSE ts[i]],
         Timer(kind, delay, ref, val))

\* setTimeout(cb, delay) whose handle is dropped
setTimeoutFree(ts, kind, delay, val) == Append(ts, Timer(kind, delay, "none", val))

\* comboTimersRef.current.push(setTimeout(cb, delay))
setTimeoutCombo(ts, kind, delay, val) == Append(ts, Timer(kind, delay, "combo", val))

\* clearTimeout(ref.current) / comboTimersRef.current.forEach(clearTimeout)
clearTimeoutRef(ts, ref) == SelectSeq(ts, LAMBDA t : t.ref # ref)

IsDue(i) == /\ timers[i].left = 0
            /\ \A j \in 1..(i - 1) : timers[j].left # 0
DueKind(kind) == \E i \in DOMAIN timers : IsDue(i) /\ timers[i].kind = kind
DueTimer == timers[CHOOSE i \in DOMAIN timers : IsDue(i)]
\* the state record with the due timer taken off the queue
Popped ==
  LET i == CHOOSE j \in DOMAIN timers : IsDue(j)
  IN [Cur EXCEPT !.timers = SubSeq(timers, 1, i - 1) \o SubSeq(timers, i + 1, Len(timers))]

(***************************************************************************)
(* TrainingContext: the reducer and the history                            *)
(***************************************************************************)
Min(a, b) == IF a < b THEN a ELSE b
Max(a, b) == IF a > b THEN a ELSE b

\* trainingReducer(state, {type, payload}) on the reducer's fields of s
trainingReducer(s, type, payload) ==
  CASE type = "SET_MODE" ->
         IF payload \in TRAINING_MODES THEN [s EXCEPT !.mode = payload] ELSE s
    [] type = "SET_TRAINING_TYPE" ->
         IF payload \in TRAINING_TYPES THEN [s EXCEPT !.trainingType = payload] ELSE s
    [] type = "SET_DIFFICULTY" -> [s EXCEPT !.difficulty = payload]
    [] type = "SET_DIFFICULTY_ID" ->
         IF payload \in DifficultyIds
         THEN [s EXCEPT !.difficulty = [id |-> payload] @@ DIFFICULTIES[payload]]
         ELSE s
    [] type = "SET_NUMBER_OF_SESSIONS" ->
         [s EXCEPT !.numberOfSessions = Min(MAX_SESSIONS, Max(1, payload))]
    [] type = "SET_PHASE" ->
         IF payload \in TRAINING_PHASES THEN [s EXCEPT !.phase = payload] ELSE s
    [] type = "INCREMENT_SESSION" -> [s EXCEPT !.currentSession = @ + 1]
    [] type = "INCREMENT_HITS" -> [s EXCEPT !.hitsCompleted = @ + 1]
    [] type = "INCREMENT_COMBOS" -> [s EXCEPT !.combosCompleted = @ + 1]
    [] type = "RESET_SESSION" -> [s EXCEPT !.hitsCompleted = 0, !.combosCompleted = 0]
    [] type = "RESET_ALL" ->
         [s EXCEPT !.phase = "IDLE", !.currentSession = 1,
                   !.hitsCompleted = 0, !.combosCompleted = 0]
    [] OTHER -> s

\* useLocalStorage: setValue(prev => ({...prev, [field]: value})) of the
\* preferences. prev is storedValue of the render that created setValue
\* (value(storedValue), useCallback on [key, storedValue]), not the value
\* an earlier call of the same task has set; the item is written at once
setPreferences(r, s, field, value) ==
  [s EXCEPT !.preferences = [r.preferences EXCEPT ![field] = value],
            !.written = @ \cup {"preferences"}]

setPhase(s, p) == trainingReducer(s, "SET_PHASE", p)
incrementHits(s) == trainingReducer(s, "INCREMENT_HITS", 0)
incrementCombos(s) == trainingReducer(s, "INCREMENT_COMBOS", 0)
incrementSession(s) == trainingReducer(s, "INCREMENT_SESSION", 0)
resetSession(s) == trainingReducer(s, "RESET_SESSION", 0)
\* a variant of resetAll that leaves currentSession as it is
resetAllKeepsSession(s) ==
  [s EXCEPT !.phase = "IDLE", !.hitsCompleted = 0, !.combosCompleted = 0]
resetAll(s) == trainingReducer(s, "RESET_ALL", 0)
\* a variant of setNumberOfSessions that stores the count as given
setNumberOfSessionsAsGiven(r, s, count) ==
  setPreferences(r, [s EXCEPT !.numberOfSessions = count], "numberOfSessions", count)
\* actions.setNumberOfSessions(count)
setNumberOfSessions(r, s, count) ==
  setPreferences(r, trainingReducer(s, "SET_NUMBER_OF_SESSIONS", count),
                 "numberOfSessions", count)
\* actions.setMode(mode)
setMode(r, s, m) == setPreferences(r, trainingReducer(s, "SET_MODE", m), "mode", m)
\* actions.setTrainingType(trainingType)
setTrainingType(r, s, type) ==
  setPreferences(r, trainingReducer(s, "SET_TRAINING_TYPE", type), "trainingType", type)

\* the first n elements of a sequence: Array.prototype.slice(0, n)
Slice(q, n) == SubSeq(q, 1, Min(Len(q), n))

\* a variant of addToHistory that leaves out slice(0, MAX_HISTORY_ENTRIES)
addToHistoryUncapped(r, s, entry) ==
  [s EXCEPT !.sessionHistory = <<entry>> \o r.sessionHistory,
            !.written = @ \cup {"history"}]
\* a variant of addToHistory that puts the new entry last
addToHistoryOldestFirst(r, s, entry) ==
  [s EXCEPT !.sessionHistory = Slice(r.sessionHistory \o <<entry>>, MAX_HISTORY_ENTRIES),
            !.written = @ \cup {"history"}]

\* addToHistory(entry): newest first, capped at MAX_HISTORY_ENTRIES. The
\* updater is applied by setValue of useLocalStorage to storedValue of the
\* render r that made the function, and the result is stored at once
addToHistory(r, s, entry) ==
  [s EXCEPT !.sessionHistory = Slice(<<entry>> \o r.sessionHistory, MAX_HISTORY_ENTRIES),
            !.written = @ \cup {"history"}]

\* the entry the completion effects build (0 stands for a field the entry lacks;
\* id, timestamp and durationMs are left out)
HistoryEntry(c, totalHits, combos, totalCombos) ==
  [mode |-> c.mode, trainingType |-> c.trainingType, difficultyId |-> c.difficulty.id,
   hitsCompleted |-> c.hitsCompleted, totalHits |-> totalHits,
   combosCompleted |-> combos, totalCombos |-> totalCombos,
   sessionNumber |-> c.currentSession, totalSessions |-> c.numberOfSessions]

\* Math.round(num / den) for num >= 0 and den > 0
MathRound(num, den) == (2 * num + den) \div (2 * den)

\* statsCalculator: completionRate of calculateSessionStats
completionRate(hits, totalHits) ==
  IF totalHits > 0 THEN MathRound(hits * 100, totalHits) ELSE 0

\* ResultsScreen: totalExpectedHits, the sum of (session.totalHits || 0)
\* over the first n entries of the history
RECURSIVE totalExpectedHits(_, _)
totalExpectedHits(history, n) ==
  IF n = 0 THEN 0 ELSE totalExpectedHits(history, n - 1) + history[n].totalHits

\* ResultsScreen: stats.completionRate
ResultsCompletionRate(s) ==
  IF totalExpectedHits(s.sessionHistory, Len(s.sessionHistory)) > 0
  THEN MathRound(s.hitsCompleted * 100,
                 totalExpectedHits(s.sessionHistory, Len(s.sessionHistory)))
  ELSE 100

\* ProfileContext: getEffectiveSettings / getEffectiveComboSettings of the active profile
getEffectiveSettings(s, difficultyId) == s.activeProfile.difficulties[difficultyId]
\* actions.setDifficulty(difficultyId), for the ids of the difficulty list:
\* the effective settings of the active profile of the render r
setDifficulty(r, s, difficultyId) ==
  setPreferences(r, trainingReducer(s, "SET_DIFFICULTY", getEffectiveSettings(r, difficultyId)),
                 "difficultyId", difficultyId)
getEffectiveComboSettings(s, difficultyId) == getEffectiveSettings(s, difficultyId).combo

\* Math.random() in the model: one of the multiples of 1/RandomSteps in
\* [0, 1), given by its numerator
RandomValues == 0..(RandomSteps - 1)
\* Math.floor(Math.random() * n) for the value u of Math.random()
FloorRandom(u, n) == (u * n) \div RandomSteps

\* a variant of getRandomInterval that leaves out the + 1
getRandomIntervalExclusive(d, u) == FloorRandom(u, d.maxInterval - d.minInterval) + d.minInterval
\* getRandomInterval(difficulty), u the value of Math.random()
getRandomInterval(d, u) == FloorRandom(u, d.maxInterval - d.minInterval + 1) + d.minInterval
\* getRandomComboSize(comboConfig)
getRandomComboSize(comboConfig, u) ==
  FloorRandom(u, comboConfig.comboSize.max - comboConfig.comboSize.min + 1)
  + comboConfig.comboSize.min
\* getRandomStrikeInterval(comboConfig)
getRandomStrikeInterval(comboConfig, u) ==
  FloorRandom(u, comboConfig.strikeInterval.max - comboConfig.strikeInterval.min + 1)
  + comboConfig.strikeInterval.min
\* getRandomComboRest(comboConfig)
getRandomComboRest(comboConfig, u) ==
  FloorRandom(u, comboConfig.restBetweenCombos.max - comboConfig.restBetweenCombos.min + 1)
  + comboConfig.restBetweenCombos.min
\* getRandomTotalHits(totalHits)
getRandomTotalHits(totalHits, u) == FloorRandom(u, totalHits.max - totalHits.min + 1) + totalHits.min

\* the results of the scheduler's draws: every value of the generators
Draws(r) == {x \in r.min..r.max : TRUE}
DrawsMs(lo, hi) == {x \in lo..hi : x % Granule = 0}

(***************************************************************************)
(* useAudio                                                                *)
(***************************************************************************)
\* initAudio(): asynchronous; its continuation sets isReady once resume() has
\* resolved with the context running (setIsReady(true) changes nothing when
\* isReady is already true)
initAudio(s) == [s EXCEPT !.audioInit = @ \/ ~s.isReady]

(***************************************************************************)
(* TrainingApp: the functions the effects and the timer callbacks call     *)
(***************************************************************************)
\* runCountdown(value) of the countdown effect
runCountdown(s, value) ==
  IF value > 0
  THEN [s EXCEPT !.countdownTicks = @ + 1,     \* playCountdown()
                 !.timers = setTimeoutRef(@, "cdTick", COUNTDOWN_TICK_MS, "countdown", value)]
  ELSE [s EXCEPT !.timers = setTimeoutRef(@, "cdEnd", COUNTDOWN_SETTLE_MS, "countdown", 0)]

\* scheduleNextAction(): actionTimerRef.current = setTimeout(..., interval)
scheduleNextAction(s, interval) ==
  [s EXCEPT !.timers = setTimeoutRef(@, "action", interval, "action", 0)]

\* a variant of CumulativeDelay that assigns (=) instead of accumulating (+=)
CumulativeDelayNotSummed(gaps, i) == IF i <= 1 THEN 0 ELSE gaps[i - 1]

\* the delays of the strikes of a combo: cumulativeDelay before strike i
RECURSIVE CumulativeDelay(_, _)
CumulativeDelay(gaps, i) == IF i <= 1 THEN 0 ELSE CumulativeDelay(gaps, i - 1) + gaps[i - 1]

RECURSIVE PushStrikes(_, _, _, _)
PushStrikes(ts, gaps, i, size) ==
  IF i > size THEN ts
  ELSE PushStrikes(setTimeoutCombo(ts, "strike", CumulativeDelay(gaps, i), i), gaps, i + 1, size)

\* scheduleCombo(): size strikes, gaps the size-1 sampled strike intervals
scheduleCombo(s, size, gaps) ==
  LET cleared == clearTimeoutRef(s.timers, "combo")
      strikes == PushStrikes(cleared, gaps, 1, size)
      comboEndDelay == CumulativeDelay(gaps, size) + COMBO_DISPLAY_MS
  IN [s EXCEPT !.timers = setTimeoutCombo(strikes, "comboDone", comboEndDelay, 0)]

\* Math.round(ms / 1000) for ms >= 0
RoundSeconds(ms) == (ms + 500) \div 1000

\* a variant of breakDurationOf that does not read rest.enabled
breakDurationIgnoresEnabled(d) ==
  RoundSeconds(IF d.rest.breakDuration = 0 THEN BREAK_FALLBACK_MS ELSE d.rest.breakDuration)

\* the break effect's breakDuration, in seconds
breakDurationOf(d) ==
  IF d.rest.enabled
  THEN RoundSeconds(IF d.rest.breakDuration = 0 THEN BREAK_FALLBACK_MS ELSE d.rest.breakDuration)
  ELSE 0

\* a variant of nextSession that leaves out resetSession()
nextSessionKeepsCounters(s) == setPhase(incrementSession(s), "COUNTDOWN")

\* "start next session": incrementSession(); resetSession(); setPhase(COUNTDOWN)
nextSession(s) == setPhase(resetSession(incrementSession(s)), "COUNTDOWN")

\* runBreak(remaining) of the break effect
runBreak(s, remaining) ==
  IF remaining > 0
  THEN LET warn == remaining = BREAK_WARNING_AT /\ ~s.warningPlayed
       IN [s EXCEPT !.warningPlayed = @ \/ warn,
                    !.warnings = IF warn THEN @ + 1 ELSE @,     \* playWarning()
                    !.timers = setTimeoutRef(@, "breakTick", BREAK_TICK_MS, "break", remaining)]
  ELSE [nextSession(s) EXCEPT !.warnings = 0]    \* the count of this break is closed

(***************************************************************************)
(* useWakeLock. release() of a sentinel is taken to release it at the call *)
(* (its 'release' listener included); the request() promise and the        *)
(* continuation of releaseWakeLock() settle in tasks of their own.         *)
(***************************************************************************)
\* the 'release' listener of the sentinel the ref holds:
\* setIsLocked(false); wakeLockRef.current = null
onSentinelRelease(s) ==
  [s EXCEPT !.sentinels = @ - 1, !.isLocked = FALSE, !.wakeLockRef = FALSE]

\* requestWakeLock(): nothing without the API; an existing sentinel is
\* released first; then navigator.wakeLock.request('screen') is awaited
requestWakeLock(s) ==
  IF ~s.isSupported THEN s
  ELSE [(IF s.wakeLockRef THEN onSentinelRelease(s) ELSE s) EXCEPT
          !.wakeRequests = @ + 1, !.revoked = FALSE]

\* the request() promise resolves: wakeLockRef.current = sentinel; setIsLocked(true).
\* A sentinel the ref held before is no longer reachable.
onWakeLockGranted(s) ==
  [s EXCEPT !.wakeRequests = @ - 1, !.sentinels = @ + 1,
            !.wakeLockRef = TRUE, !.isLocked = TRUE]

\* the request() promise rejects (the document is not visible): setIsLocked(false)
onWakeLockDenied(s) == [s EXCEPT !.wakeRequests = @ - 1, !.isLocked = FALSE]

\* releaseWakeLock(): if the ref holds a sentinel, await its release()
releaseWakeLock(s) ==
  IF s.wakeLockRef THEN [onSentinelRelease(s) EXCEPT !.wakeReleasing = TRUE] ELSE s

\* the continuation of releaseWakeLock(): wakeLockRef.current = null; setIsLocked(false)
onWakeLockReleased(s) ==
  [s EXCEPT !.wakeReleasing = FALSE, !.wakeLockRef = FALSE, !.isLocked = FALSE]

\* the page is hidden: the browser releases every sentinel of the page, and
\* each sentinel's 'release' listener runs
onPageHidden(s) ==
  IF s.sentinels > 0
  THEN [s EXCEPT !.visible = FALSE, !.sentinels = 0, !.isLocked = FALSE,
                 !.wakeLockRef = FALSE, !.revoked = TRUE]
  ELSE [s EXCEPT !.visible = FALSE]

\* handleVisibilityChange of the visibility effect (the page has become visible)
handleVisibilityChange(s) ==
  IF s.isSupported /\ s.visible /\ s.isLocked /\ ~s.wakeLockRef
  THEN requestWakeLock(s)
  ELSE s

\* A value of trainingStartTime / trainingEndTime: null, or a Date.now()
\* taken in the program in progress ("this") or in one before it
\* ("earlier"), while currentSession was `session`.
NullTime == [set |-> FALSE, run |-> "none", session |-> 0]
\* Date.now() in a closure of render c
DateNow(c) == [set |-> TRUE, run |-> "this", session |-> c.currentSession]
\* a program is started: the times held belong to an earlier one
Earlier(time) == IF time.set THEN [time EXCEPT !.run = "earlier"] ELSE time
NewProgram(s) ==
  [s EXCEPT !.planned = @ + s.numberOfSessions,
            !.trainingStartTime = Earlier(@), !.trainingEndTime = Earlier(@)]

\* the tail of both completion effects: more sessions -> BREAK, else COMPLETE
finishSession(c, s) ==
  IF c.currentSession < c.numberOfSessions
  THEN setPhase(s, "BREAK")
  ELSE setPhase(releaseWakeLock([s EXCEPT !.trainingEndTime = DateNow(c)]), "COMPLETE")

(***************************************************************************)
(* TrainingApp: the effects. p is the previous render, c the render being  *)
(* committed (the values the closures see), s the state the effects of     *)
(* this commit have produced so far.                                       *)
(***************************************************************************)
\* identity of the context's action creators: the actions memo depends on
\* setSessionHistory (useLocalStorage: useCallback over [key, storedValue])
\* and on getEffectiveSettings (the active profile)
ActionsChanged(p, c) ==
  p.sessionHistory # c.sessionHistory \/ p.activeProfile # c.activeProfile
\* identity of the play* callbacks of useAudio: useCallback over [isReady]
PlayChanged(p, c) == p.isReady # c.isReady

CountdownDeps(p, c) ==
  \/ p.phase # c.phase
  \/ ActionsChanged(p, c)
  \/ p.difficulty.totalHits # c.difficulty.totalHits
  \/ PlayChanged(p, c)
  \/ p.trainingStartTime # c.trainingStartTime
scheduleNextActionChanged(p, c) ==
  p.difficulty # c.difficulty \/ p.mode # c.mode \/ ActionsChanged(p, c) \/ PlayChanged(p, c)
SingleDeps(p, c) ==
  \/ p.phase # c.phase
  \/ p.trainingType # c.trainingType
  \/ p.hitsCompleted # c.hitsCompleted
  \/ scheduleNextActionChanged(p, c)
scheduleComboChanged(p, c) ==
  p.difficulty.id # c.difficulty.id \/ p.mode # c.mode \/ ActionsChanged(p, c) \/ PlayChanged(p, c)
ComboDeps(p, c) ==
  \/ p.phase # c.phase
  \/ p.trainingType # c.trainingType
  \/ p.difficulty.id # c.difficulty.id
  \/ p.combosCompleted # c.combosCompleted
  \/ scheduleComboChanged(p, c)
SingleDoneDeps(p, c) ==
  \/ p.phase # c.phase
  \/ p.trainingType # c.trainingType
  \/ p.hitsCompleted # c.hitsCompleted
  \/ p.sessionTotalHits # c.sessionTotalHits
  \/ p.difficulty.id # c.difficulty.id
  \/ p.currentSession # c.currentSession
  \/ p.numberOfSessions # c.numberOfSessions
  \/ p.mode # c.mode
  \/ ActionsChanged(p, c)
  \/ PlayChanged(p, c)
ComboDoneDeps(p, c) ==
  \/ p.phase # c.phase
  \/ p.trainingType # c.trainingType
  \/ p.combosCompleted # c.combosCompleted
  \/ p.hitsCompleted # c.hitsCompleted
  \/ p.difficulty.id # c.difficulty.id
  \/ p.currentSession # c.currentSession
  \/ p.numberOfSessions # c.numberOfSessions
  \/ p.mode # c.mode
  \/ ActionsChanged(p, c)
  \/ PlayChanged(p, c)
BreakDeps(p, c) ==
  \/ p.phase # c.phase
  \/ ActionsChanged(p, c)
  \/ PlayChanged(p, c)
  \/ p.difficulty.rest # c.difficulty.rest
CompleteDeps(p, c) ==
  \/ p.phase # c.phase
  \/ p.trainingEndTime # c.trainingEndTime

\* did the effect of render p return a cleanup function?
CountdownActive(p) == p.phase = "COUNTDOWN"
SingleActive(p) == p.phase = "TRAINING" /\ p.trainingType = "single"
ComboActive(p) ==
  /\ p.phase = "TRAINING" /\ p.trainingType = "combo"
  /\ p.combosCompleted < getEffectiveComboSettings(p, p.difficulty.id).totalCombos
BreakActive(p) == p.phase = "BREAK" /\ breakDurationOf(p.difficulty) # 0

\* The cleanup of an effect runs when the effect's dependencies changed and
\* its previous run returned a cleanup function.
CountdownCleanup(p, c, s) ==
  IF CountdownDeps(p, c) /\ CountdownActive(p)
  THEN [s EXCEPT !.timers = clearTimeoutRef(@, "countdown")]
  ELSE s
\* a variant of SingleCleanup that leaves out clearTimeout(actionTimerRef.current)
SingleCleanupKeepsTimer(p, c, s) == s
SingleCleanup(p, c, s) ==
  IF SingleDeps(p, c) /\ SingleActive(p)
  THEN [s EXCEPT !.timers = clearTimeoutRef(@, "action")]
  ELSE s
ComboCleanup(p, c, s) ==
  IF ComboDeps(p, c) /\ ComboActive(p)
  THEN [s EXCEPT !.timers = clearTimeoutRef(clearTimeoutRef(@, "action"), "combo")]
  ELSE s
BreakCleanup(p, c, s) ==
  IF BreakDeps(p, c) /\ BreakActive(p)
  THEN [s EXCEPT !.timers = clearTimeoutRef(@, "break")]
  ELSE s

\* The body of an effect runs when its dependencies changed.
\* countdown effect: restart the countdown display, initAudio(),
\* requestWakeLock(), a free
\* 100 ms timer that starts runCountdown(3)
CountdownEffect(p, c, s) ==
  IF CountdownDeps(p, c) /\ c.phase = "COUNTDOWN"
  THEN [requestWakeLock(initAudio(s)) EXCEPT
          !.countdownValue = COUNTDOWN_FROM,
          !.countdownTicks = IF p.phase = "COUNTDOWN" THEN @ ELSE 0,
          !.timers = setTimeoutFree(@, "cdStart", COUNTDOWN_START_DELAY_MS, COUNTDOWN_FROM)]
  ELSE s

\* single-mode scheduling effect
SingleEffect(p, c, s, interval) ==
  IF SingleDeps(p, c) /\ c.phase = "TRAINING" /\ c.trainingType = "single"
  THEN scheduleNextAction(s, interval)
  ELSE s

\* combo-mode scheduling effect
ComboEffect(p, c, s, rest) ==
  IF /\ ComboDeps(p, c) /\ c.phase = "TRAINING" /\ c.trainingType = "combo"
     /\ c.combosCompleted < getEffectiveComboSettings(c, c.difficulty.id).totalCombos
  THEN [s EXCEPT !.timers =
          setTimeoutRef(@, "comboStart", IF c.combosCompleted = 0 THEN 0 ELSE rest, "action", 0)]
  ELSE s

\* single-mode completion effect
SingleDoneEffect(p, c, s) ==
  IF /\ SingleDoneDeps(p, c)
     /\ c.phase = "TRAINING" /\ c.trainingType = "single"
     /\ c.sessionTotalHits # 0 /\ c.hitsCompleted >= c.sessionTotalHits
  THEN finishSession(c,
         addToHistory(c, [s EXCEPT !.timers = clearTimeoutRef(@, "action"),
                                !.currentAction = "none"],
                      HistoryEntry(c, c.sessionTotalHits, 0, 0)))
  ELSE s

\* combo-mode completion effect: reads the BUILT-IN settings of difficulty.id
ComboDoneEffect(p, c, s) ==
  IF /\ ComboDoneDeps(p, c)
     /\ c.phase = "TRAINING" /\ c.trainingType = "combo"
     /\ c.combosCompleted >= getComboSettings(c.difficulty.id).totalCombos
  THEN finishSession(c,
         addToHistory(c, [s EXCEPT !.timers = clearTimeoutRef(clearTimeoutRef(@, "action"), "combo"),
                                !.currentAction = "none"],
                      HistoryEntry(c, c.hitsCompleted, c.combosCompleted,
                                   getComboSettings(c.difficulty.id).totalCombos)))
  ELSE s

\* break effect
BreakEffect(p, c, s) ==
  IF BreakDeps(p, c) /\ c.phase = "BREAK"
  THEN IF breakDurationOf(c.difficulty) = 0
       THEN nextSession(s)
       ELSE runBreak([s EXCEPT !.breakTimeRemaining = breakDurationOf(c.difficulty),
                               !.warningPlayed = FALSE,
                               !.warnings = IF p.phase = "BREAK" THEN @ ELSE 0],
                     breakDurationOf(c.difficulty))
  ELSE s

\* "handle complete phase - set end time if not already set"
CompleteEffect(p, c, s) ==
  IF CompleteDeps(p, c) /\ c.phase = "COMPLETE" /\ ~c.trainingEndTime.set
  THEN [s EXCEPT !.trainingEndTime = DateNow(c)]
  ELSE s

\* "reset training times when going back to IDLE"
IdleEffect(p, c, s) ==
  IF p.phase # c.phase /\ c.phase = "IDLE"
  THEN [s EXCEPT !.trainingStartTime = NullTime, !.trainingEndTime = NullTime,
                 !.sessionTotalHits = 0, !.currentAction = "none"]
  ELSE s

\* the phases renderScreen shows TrainingScreen in
ScreenPhases == {"TRAINING", "MID_REST"}

\* TrainingScreen is unmounted: its state and refs are discarded (the frames
\* of a hold in progress go on, but they act on the discarded instance)
TrainingScreenUnmount(p, c, s) ==
  IF p.phase \in ScreenPhases /\ c.phase \notin ScreenPhases
  THEN [s EXCEPT !.showStopConfirm = FALSE, !.holdProgress = 0, !.holdElapsed = -1,
                 !.timers = SelectSeq(@, LAMBDA t : t.kind # "frame")]
  ELSE s

\* One commit: the cleanups of the effects whose dependencies changed, in
\* the order of the component, then the bodies in the same order.
\* rnd holds the random draws the bodies may take.
RunCleanups(p, c) ==
  BreakCleanup(p, c, ComboCleanup(p, c, SingleCleanup(p, c,
    CountdownCleanup(p, c, TrainingScreenUnmount(p, c, c)))))
RunSchedulers(p, c, rnd) ==
  ComboEffect(p, c, SingleEffect(p, c, CountdownEffect(p, c, RunCleanups(p, c)), rnd.interval),
              rnd.rest)
RunEffects(p, c, rnd) ==
  IdleEffect(p, c, CompleteEffect(p, c,
    BreakEffect(p, c, ComboDoneEffect(p, c, SingleDoneEffect(p, c, RunSchedulers(p, c, rnd))))))

\* what a render reads: the state without the refs, the timer queue and the
\* bookkeeping of the model
Rendered(s) ==
  [s EXCEPT !.timers = <<>>, !.warningPlayed = FALSE, !.audioInit = FALSE,
            !.countdownTicks = 0, !.planned = 0, !.warnings = 0,
            !.wakeLockRef = FALSE, !.sentinels = 0, !.wakeRequests = 0,
            !.wakeReleasing = FALSE, !.visible = TRUE, !.revoked = FALSE,
            !.holdElapsed = -1, !.written = {}]

\* render and run effects until the effects dispatch nothing more:
\* e is the state the effects of render c have produced
RECURSIVE Flush(_, _, _)
Settle(c, e, rnd) == IF Rendered(e) = Rendered(c) THEN e ELSE Flush(c, e, rnd)
Flush(p, c, rnd) == CHOOSE r \in {Settle(c, e, rnd) : e \in {RunEffects(p, c, rnd)}} : TRUE

(***************************************************************************)
(* Timer callbacks and user handlers (before the render they cause)        *)
(***************************************************************************)
\* getRandomAction(): the kinds the mode allows
getRandomAction(m) ==
  CASE m = "punches" -> {"punch"}
    [] m = "kicks" -> {"kick"}
    [] OTHER -> {"punch", "kick"}

\* setTimeout(() => runCountdown(3), 100)
onCountdownStart(s, value) == runCountdown(s, value)
\* countdown tick: setCountdownValue(value - 1); runCountdown(value - 1)
onCountdownTick(s, value) == runCountdown([s EXCEPT !.countdownValue = value - 1], value - 1)
\* countdown complete: setSessionTotalHits(totalHits); playSessionStart(); setPhase(TRAINING)
\* (the count of this countdown's playCountdown() calls is closed here)
onCountdownEnd(s, totalHits) ==
  setPhase([s EXCEPT !.trainingStartTime = IF @.set THEN @ ELSE DateNow(s),
                     !.sessionTotalHits = totalHits, !.countdownTicks = 0], "TRAINING")
\* the action timer of scheduleNextAction: show and play, then a free 800 ms timer
onAction(s, action) ==
  [s EXCEPT !.currentAction = action,
            !.timers = setTimeoutFree(@, "display", SINGLE_DISPLAY_MS, 0)]
\* a strike timer of scheduleCombo: show and play, then a free 300 ms timer
onStrike(s, action) ==
  [s EXCEPT !.currentAction = action,
            !.timers = setTimeoutFree(@, "display", COMBO_DISPLAY_MS, 0)]
\* the display-window timer: setCurrentAction(null); incrementHits()
onDisplayEnd(s) == incrementHits([s EXCEPT !.currentAction = "none"])
\* the combo-complete timer
onComboComplete(s) == incrementCombos(s)
\* a break tick: setBreakTimeRemaining(remaining - 1); runBreak(remaining - 1)
onBreakTick(s, remaining) ==
  runBreak([s EXCEPT !.breakTimeRemaining = remaining - 1], remaining - 1)

\* TrainingScreen.handleStopPress: holdStartRef.current = Date.now();
\* holdTimerRef.current = requestAnimationFrame(updateProgress)
\* (animation frames come one clock step apart)
handleStopPress(s) ==
  [s EXCEPT !.holdElapsed = 0,
            !.timers = setTimeoutRef(@, "frame", Granule, "hold", 0)]
\* a variant of updateProgress that adds the elapsed time to the progress shown
updateProgressAccumulates(s) ==
  IF s.holdElapsed < 0 THEN s
  ELSE LET progress == Min(s.holdProgress + (s.holdElapsed * 100) \div HOLD_MS, 100)
       IN IF progress >= 100
          THEN [s EXCEPT !.showStopConfirm = TRUE, !.holdElapsed = -1, !.holdProgress = 0]
          ELSE [s EXCEPT !.holdProgress = progress,
                         !.timers = setTimeoutRef(@, "frame", Granule, "hold", 0)]
\* updateProgress, the animation frame callback of handleStopPress
updateProgress(s) ==
  IF s.holdElapsed < 0 THEN s
  ELSE LET progress == Min((s.holdElapsed * 100) \div HOLD_MS, 100)
       IN IF progress >= 100
          THEN [s EXCEPT !.showStopConfirm = TRUE, !.holdElapsed = -1, !.holdProgress = 0]
          ELSE [s EXCEPT !.holdProgress = progress,
                         !.timers = setTimeoutRef(@, "frame", Granule, "hold", 0)]
\* TrainingScreen.handleStopRelease
handleStopRelease(s) ==
  [s EXCEPT !.timers = clearTimeoutRef(@, "hold"), !.holdElapsed = -1, !.holdProgress = 0]
\* TrainingScreen.handleCancelStop
handleCancelStop(s) == [s EXCEPT !.showStopConfirm = FALSE]

\* ConfigScreen.handleStartTraining
handleStartTraining(s) == setPhase(s, "COUNTDOWN")
\* TrainingScreen.handleConfirmStop
handleConfirmStop(s) == setPhase(s, "COMPLETE")
\* ResultsScreen.handleTrainAgain / handleChangeSettings
handleTrainAgain(s) == setPhase(resetAll(s), "COUNTDOWN")
handleChangeSettings(s) == setPhase(resetAll(s), "IDLE")

(***************************************************************************)
(* Initial states: a validated configuration, the application mounted      *)
(***************************************************************************)
ModelIds == {"very-easy"}      \* the difficulty ids the model starts programs with
ModelModes == {"punches"}      \* the training modes the model starts programs with

\* a break long enough to pass the 5-second warning
ModelBreakMs == (BREAK_WARNING_AT + 1) * BREAK_TICK_MS
RestChoices == {[enabled |-> e, breakDuration |-> ModelBreakMs] : e \in BOOLEAN}

\* custom settings of one difficulty: the leaves the training type reads are
\* overridden with small validated values, the others keep the defaults.
\* Combo profiles are of two kinds: totalCombos below the built-in count
\* (with sampled sizes, intervals and rests) and above it (all ranges
\* degenerate: combos of three strikes, one granule apart).
CustomSettings(id, type) ==
  IF type = "single"
  THEN {[createDifficultySettings(id) EXCEPT
           !.minInterval = Granule, !.maxInterval = 2 * Granule,
           !.totalHits = Range(1, MaxHits), !.rest = r] : r \in RestChoices}
  ELSE {[createDifficultySettings(id) EXCEPT
           !.combo = [comboSize |-> Range(1, MaxComboSize),
                      strikeInterval |-> Range(Granule, 2 * Granule),
                      restBetweenCombos |-> Range(Granule, 2 * Granule),
                      totalCombos |-> LowCombos],
           !.rest = r] : r \in RestChoices}
       \cup
       {[createDifficultySettings(id) EXCEPT
           !.combo = [comboSize |-> Range(3, 3),
                      strikeInterval |-> Range(Granule, Granule),
                      restBetweenCombos |-> Range(Granule, Granule),
                      totalCombos |-> getComboSettings(id).totalCombos + 1],
           !.rest = r] : r \in RestChoices}

\* a custom profile: the default profile with one difficulty overridden
CustomProfile(d) ==
  [createNewProfile("Custom", "custom-1") EXCEPT !.difficulties[d.id] = d]

\* useWakeLock as mounted: no sentinel, nothing pending, the page visible
WakeLockMounted ==
  /\ isLocked = FALSE
  /\ wakeLockRef = FALSE
  /\ sentinels = 0
  /\ wakeRequests = 0
  /\ wakeReleasing = FALSE
  /\ visible = TRUE
  /\ revoked = FALSE

\* TrainingProvider, ProfileProvider and TrainingApp as mounted
\* TrainingProvider and TrainingApp as mounted, but for the configuration
TrainingIdle ==
  /\ phase = "IDLE"
  /\ currentSession = 1
  /\ hitsCompleted = 0
  /\ combosCompleted = 0
  /\ sessionHistory = <<>>
  /\ currentAction = "none"
  /\ sessionTotalHits = 0
  /\ countdownValue = COUNTDOWN_FROM
  /\ breakTimeRemaining = BREAK_FALLBACK_MS \div 1000
  /\ isReady = FALSE
  /\ audioInit = FALSE
  /\ timers = <<>>
  /\ warningPlayed = FALSE
  /\ planned = 0
  /\ lastEvent = "mount"
  /\ countdownTicks = 0
  /\ warnings = 0
  /\ showStopConfirm = FALSE
  /\ holdProgress = 0
  /\ holdElapsed = -1
  /\ trainingStartTime = NullTime
  /\ trainingEndTime = NullTime
  /\ sampled = NoSample

\* the application mounted with a custom profile active and a configuration
\* chosen
AppMounted ==
  /\ TrainingIdle
  /\ mode \in ModelModes
  /\ trainingType \in TRAINING_TYPES
  /\ numberOfSessions \in 1..MaxSessions
  /\ \E id \in ModelIds : difficulty \in CustomSettings(id, trainingType)
  /\ activeProfile = CustomProfile(difficulty)
  /\ mounted = TRUE
  /\ profiles = <<createDefaultProfile, activeProfile>>
  /\ activeProfileId = activeProfile.id
  /\ storedProfiles = <<toStored(activeProfile)>>
  /\ storedActive = activeProfile.id
  /\ created = 1
  /\ editingProfile = <<>>
  /\ errors = <<>>
  /\ edits = 0
  /\ saves = 0
  /\ preferences = [mode |-> mode, trainingType |-> trainingType,
                    difficultyId |-> difficulty.id, numberOfSessions |-> numberOfSessions]
  /\ storedPreferences = Stringify(preferences)
  /\ storedHistory = <<>>
  /\ corrupt = {}

\* the application in a browser without the Wake Lock API
Init ==
  /\ AppMounted
  /\ isSupported = FALSE
  /\ WakeLockMounted

\* the application in a browser with the Wake Lock API: programs of one
\* single-mode session
InitWake ==
  /\ AppMounted
  /\ trainingType = "single" /\ numberOfSessions = 1 /\ ~difficulty.rest.enabled
  /\ isSupported = TRUE
  /\ WakeLockMounted

(***************************************************************************)
(* Actions                                                                 *)
(***************************************************************************)
\* the draws an effect may take in the render that follows a task
IntervalDraws ==
  IF trainingType = "single" THEN DrawsMs(difficulty.minInterval, difficulty.maxInterval) ELSE {0}
RestDraws ==
  IF trainingType = "combo"
  THEN LET r == getEffectiveComboSettings(Cur, difficulty.id).restBetweenCombos
       IN DrawsMs(r.min, r.max)
  ELSE {0}
NoDraws == [interval |-> 0, rest |-> 0]

\* time passes: no timer is due
Tick ==
  /\ timers # <<>>
  /\ \A i \in DOMAIN timers : timers[i].left > 0
  /\ timers' = [i \in DOMAIN timers |-> [timers[i] EXCEPT !.left = @ - Granule]]
  /\ holdElapsed' = IF holdElapsed >= 0 THEN holdElapsed + Granule ELSE holdElapsed
  /\ lastEvent' = "Tick"
  /\ UNCHANGED <<phase, currentSession, hitsCompleted, combosCompleted, mode, trainingType,
                 numberOfSessions, difficulty, activeProfile, sessionHistory, currentAction,
                 sessionTotalHits, countdownValue, breakTimeRemaining, isReady, audioInit,
                 warningPlayed, planned, countdownTicks, warnings,
                 isSupported, isLocked, wakeLockRef, sentinels, wakeRequests,
                 wakeReleasing, visible, revoked, showStopConfirm, holdProgress,
                 trainingStartTime, trainingEndTime>>
  /\ UNCHANGED profileVars
  /\ UNCHANGED storageVars
  /\ UNCHANGED sampled

CountdownStart ==
  /\ DueKind("cdStart")
  /\ Commit(Flush(Cur, onCountdownStart(Popped, DueTimer.val), NoDraws), "CountdownStart")

CountdownTick ==
  /\ DueKind("cdTick")
  /\ Commit(Flush(Cur, onCountdownTick(Popped, DueTimer.val), NoDraws), "CountdownTick")

CountdownEnd ==
  /\ DueKind("cdEnd")
  /\ \E totalHits \in Draws(difficulty.totalHits), interval \in IntervalDraws :
       Commit(Flush(Cur, onCountdownEnd(Popped, totalHits),
                    [interval |-> interval, rest |-> 0]), "CountdownEnd")

ActionTimer ==
  /\ DueKind("action")
  /\ \E action \in getRandomAction(mode) :
       Commit(Flush(Cur, onAction(Popped, action), NoDraws), "ActionTimer")

DisplayTimer ==
  /\ DueKind("display")
  /\ \E interval \in IntervalDraws :
       Commit(Flush(Cur, onDisplayEnd(Popped), [interval |-> interval, rest |-> 0]),
              "DisplayTimer")

ComboStart ==
  /\ DueKind("comboStart")
  /\ LET comboConfig == getEffectiveComboSettings(Cur, difficulty.id)
     IN \E size \in Draws(comboConfig.comboSize) :
          \E gaps \in [1..(size - 1) ->
                         DrawsMs(comboConfig.strikeInterval.min, comboConfig.strikeInterval.max)] :
            Commit(Flush(Cur, scheduleCombo(Popped, size, gaps), NoDraws), "ComboStart")

StrikeTimer ==
  /\ DueKind("strike")
  /\ \E action \in getRandomAction(mode) :
       Commit(Flush(Cur, onStrike(Popped, action), NoDraws), "StrikeTimer")

ComboComplete ==
  /\ DueKind("comboDone")
  /\ \E rest \in RestDraws :
       Commit(Flush(Cur, onComboComplete(Popped), [interval |-> 0, rest |-> rest]),
              "ComboComplete")

BreakTick ==
  /\ DueKind("breakTick")
  /\ Commit(Flush(Cur, onBreakTick(Popped, DueTimer.val), NoDraws), "BreakTick")

\* the Start button of ConfigScreen (rendered in IDLE)
StartTraining ==
  /\ phase = "IDLE"
  /\ planned + numberOfSessions <= MaxPlanned
  /\ Commit(Flush(NewProgram(Cur), handleStartTraining(NewProgram(Cur)), NoDraws),
            "StartTraining")

\* the Stop button of the confirmation dialog of TrainingScreen
\* (rendered in TRAINING and MID_REST)
ConfirmStop ==
  /\ phase \in {"TRAINING", "MID_REST"}
  /\ Commit(Flush(Cur, handleConfirmStop(Cur), NoDraws), "ConfirmStop")

\* the buttons of ResultsScreen (rendered in COMPLETE)
TrainAgain ==
  /\ phase = "COMPLETE"
  /\ planned + numberOfSessions <= MaxPlanned
  /\ Commit(Flush(NewProgram(Cur), handleTrainAgain(NewProgram(Cur)), NoDraws), "TrainAgain")

ChangeSettings ==
  /\ phase = "COMPLETE"
  /\ Commit(Flush(Cur, handleChangeSettings(Cur), NoDraws), "ChangeSettings")

\* the continuation of initAudio(): the context is running, setIsReady(true)
AudioReady ==
  /\ audioInit
  /\ \E interval \in IntervalDraws, rest \in RestDraws :
       Commit(Flush(Cur, [Cur EXCEPT !.isReady = TRUE, !.audioInit = FALSE],
                    [interval |-> interval, rest |-> rest]), "AudioReady")

\* the promise of navigator.wakeLock.request() resolves (the page is visible;
\* a release() awaited earlier has settled)
WakeLockGranted ==
  /\ wakeRequests > 0 /\ visible /\ ~wakeReleasing
  /\ Commit(Flush(Cur, onWakeLockGranted(Cur), NoDraws), "WakeLockGranted")

\* the promise of navigator.wakeLock.request() rejects: the page is hidden
WakeLockDenied ==
  /\ wakeRequests > 0 /\ ~visible
  /\ Commit(Flush(Cur, onWakeLockDenied(Cur), NoDraws), "WakeLockDenied")

\* the continuation of releaseWakeLock()
WakeLockReleased ==
  /\ wakeReleasing
  /\ Commit(Flush(Cur, onWakeLockReleased(Cur), NoDraws), "WakeLockReleased")

\* the user leaves the page (another tab, the screen switched off)
PageHidden ==
  /\ visible
  /\ Commit(Flush(Cur, onPageHidden(Cur), NoDraws), "PageHidden")

\* the user comes back: visibilitychange with visibilityState 'visible'
PageVisible ==
  /\ ~visible
  /\ Commit(Flush(Cur, handleVisibilityChange([Cur EXCEPT !.visible = TRUE]), NoDraws),
            "PageVisible")

Next ==
  \/ Tick
  \/ CountdownStart
  \/ CountdownTick
  \/ CountdownEnd
  \/ ActionTimer
  \/ DisplayTimer
  \/ ComboStart
  \/ StrikeTimer
  \/ ComboComplete
  \/ BreakTick
  \/ StartTraining
  \/ ConfirmStop
  \/ TrainAgain
  \/ ChangeSettings
  \/ AudioReady

Spec == Init /\ [][Next]_vars

\* single-mode programs in a browser with the Wake Lock API (the audio
\* context never gets to run)
NextWake ==
  \/ Tick
  \/ CountdownStart
  \/ CountdownTick
  \/ CountdownEnd
  \/ ActionTimer
  \/ DisplayTimer
  \/ StartTraining
  \/ ConfirmStop
  \/ TrainAgain
  \/ ChangeSettings
  \/ WakeLockGranted
  \/ WakeLockDenied
  \/ WakeLockReleased
  \/ PageHidden
  \/ PageVisible

SpecWake == InitWake /\ [][NextWake]_vars

(***************************************************************************)
(* TrainingProvider on its own: the history and the reducer under the      *)
(* calls of the context's API.                                             *)
(***************************************************************************)
\* a program of one single-mode session, no Wake Lock API
InitSingle ==
  /\ AppMounted
  /\ trainingType = "single" /\ numberOfSessions = 1 /\ ~difficulty.rest.enabled
  /\ isSupported = FALSE
  /\ WakeLockMounted

\* a session of either training type is recorded: addToHistory({...})
\* (planned counts the recorded sessions)
RecordSession ==
  /\ planned < MaxRecorded
  /\ \E type \in TRAINING_TYPES :
       Commit(addToHistory(Cur, [Cur EXCEPT !.planned = @ + 1],
                           HistoryEntry([Cur EXCEPT !.trainingType = type], 0, 0, 0)),
              "RecordSession")

NextHistory ==
  \/ RecordSession

\* single-mode programs, no Wake Lock API
InitStop ==
  /\ AppMounted
  /\ trainingType = "single"
  /\ isSupported = FALSE
  /\ WakeLockMounted

\* the Stop button of TrainingScreen is pressed (the dialog is not in the way)
StopPress ==
  /\ phase \in ScreenPhases /\ ~showStopConfirm /\ holdElapsed < 0
  /\ Commit(Flush(Cur, handleStopPress(Cur), NoDraws), "StopPress")

\* the Stop button is released (mouse up, mouse leave, touch end)
StopRelease ==
  /\ phase \in ScreenPhases /\ holdElapsed >= 0
  /\ Commit(Flush(Cur, handleStopRelease(Cur), NoDraws), "StopRelease")

\* an animation frame of the hold
HoldFrame ==
  /\ DueKind("frame")
  /\ Commit(Flush(Cur, updateProgress(Popped), NoDraws), "HoldFrame")

\* the buttons of the confirmation dialog
CancelStop ==
  /\ phase \in ScreenPhases /\ showStopConfirm
  /\ Commit(Flush(Cur, handleCancelStop(Cur), NoDraws), "CancelStop")

ConfirmStopDialog ==
  /\ phase \in ScreenPhases /\ showStopConfirm
  /\ Commit(Flush(Cur, handleConfirmStop(Cur), NoDraws), "ConfirmStopDialog")

\* single-mode programs with the stop gesture of TrainingScreen
NextStop ==
  \/ Tick
  \/ CountdownStart
  \/ CountdownTick
  \/ CountdownEnd
  \/ ActionTimer
  \/ DisplayTimer
  \/ BreakTick
  \/ StartTraining
  \/ StopPress
  \/ StopRelease
  \/ HoldFrame
  \/ CancelStop
  \/ ConfirmStopDialog

SpecStop == InitStop /\ [][NextStop]_vars

SpecHistory == InitSingle /\ [][NextHistory]_vars

\* a name that is not a training phase
NoPhase == "PAUSED"

\* dispatch({type: SET_PHASE, payload}) with any payload
DispatchSetPhase ==
  /\ \E payload \in TRAINING_PHASES \cup {NoPhase} :
       Commit(setPhase(Cur, payload), "DispatchSetPhase")

DispatchIncrementHits ==
  /\ hitsCompleted < MaxHits
  /\ Commit(incrementHits(Cur), "DispatchIncrementHits")

DispatchIncrementCombos ==
  /\ combosCompleted < LowCombos
  /\ Commit(incrementCombos(Cur), "DispatchIncrementCombos")

DispatchIncrementSession ==
  /\ currentSession < MaxSessions
  /\ Commit(incrementSession(Cur), "DispatchIncrementSession")

DispatchResetSession ==
  /\ Commit(resetSession(Cur), "DispatchResetSession")

DispatchResetAll ==
  /\ Commit(resetAll(Cur), "DispatchResetAll")

NextReducer ==
  \/ DispatchSetPhase
  \/ DispatchIncrementHits
  \/ DispatchIncrementCombos
  \/ DispatchIncrementSession
  \/ DispatchResetSession
  \/ DispatchResetAll

SpecReducer == InitSingle /\ [][NextReducer]_vars

(***************************************************************************)
(* The scheduler with the sessions buttons of ConfigScreen                 *)
(***************************************************************************)
\* the integers setNumberOfSessions is called with: the buttons pass 1..4,
\* a stored preference may hold any integer
SessionCounts == (0 - 1)..(MAX_SESSIONS + 1)

\* setNumberOfSessions(count), by the callers the program has: ConfigScreen
\* (rendered in IDLE) and the mount effect that loads the preferences.
\* The new identity of the action creators re-runs no effect in IDLE.
SetNumberOfSessions ==
  /\ phase = "IDLE"
  /\ \E count \in SessionCounts :
       Commit(Flush(Cur, setNumberOfSessions(Cur, Cur, count), NoDraws),
              "SetNumberOfSessions")

NextSessions ==
  \/ Tick
  \/ CountdownStart
  \/ CountdownTick
  \/ CountdownEnd
  \/ ActionTimer
  \/ DisplayTimer
  \/ ComboStart
  \/ StrikeTimer
  \/ ComboComplete
  \/ BreakTick
  \/ StartTraining
  \/ ConfirmStop
  \/ TrainAgain
  \/ ChangeSettings
  \/ SetNumberOfSessions

SpecSessions == Init /\ [][NextSessions]_vars

(***************************************************************************)
(* ProfileProvider. One task issues a batch of calls through the functions *)
(* of the last render (r); React runs the queued updaters of setProfiles   *)
(* in order at the next render, or at once when nothing is pending yet.    *)
(***************************************************************************)
\* the values generateUUID() returns, in order
UuidPool == <<"custom-1", "custom-2", "custom-3", "custom-4", "custom-5">>
generateUUID(n) == UuidPool[n]

\* profiles.some(p => p.id === id)
Exists(list, id) == \E i \in DOMAIN list : list[i].id = id
\* profiles.find(p => p.id === id)
FindProfile(list, id) == list[CHOOSE i \in DOMAIN list :
                                list[i].id = id /\ \A j \in 1..(i - 1) : list[j].id # id]
\* activeProfile: profiles.find(p => p.id === activeProfileId) || profiles.find(p => p.isDefault)
ActiveProfileOf(list, id) ==
  IF Exists(list, id) THEN FindProfile(list, id)
  ELSE list[CHOOSE i \in DOMAIN list :
              list[i].isDefault /\ \A j \in 1..(i - 1) : ~list[j].isDefault]

\* what a batch has done so far: the updaters queued on profiles, the last
\* setActiveProfileIdState value, whether an update is pending
NoBatch(r) ==
  [queue |-> <<>>, activeProfileId |-> r.activeProfileId, pending |-> FALSE,
   created |-> r.created]

\* createProfile(name)
createProfile(r, b, name) ==
  [b EXCEPT !.queue = Append(@, [kind |-> "append",
                                 profile |-> createNewProfile(name, generateUUID(b.created + 1))]),
            !.created = @ + 1, !.pending = TRUE]
\* a variant of updateProfile without the guard on the default id
updateProfileAnyId(r, b, updatedProfile) ==
  [b EXCEPT !.queue = Append(@, [kind |-> "mapAny", profile |-> updatedProfile]),
            !.pending = TRUE]
\* updateProfile(updatedProfile)
updateProfile(r, b, updatedProfile) ==
  IF updatedProfile.id = DEFAULT_PROFILE_ID THEN b
  ELSE [b EXCEPT !.queue = Append(@, [kind |-> "map", profile |-> updatedProfile]),
                 !.pending = TRUE]
\* deleteProfile(profileId): activeProfileId is the one of the last render
deleteProfile(r, b, profileId) ==
  IF profileId = DEFAULT_PROFILE_ID THEN b
  ELSE [b EXCEPT !.queue = Append(@, [kind |-> "filter", id |-> profileId]),
                 !.pending = TRUE,
                 !.activeProfileId = IF r.activeProfileId = profileId
                                     THEN DEFAULT_PROFILE_ID ELSE @]
\* setActiveProfile(profileId): the check runs inside a setProfiles updater
setActiveProfile(r, b, profileId) ==
  IF b.pending
  THEN [b EXCEPT !.queue = Append(@, [kind |-> "check", id |-> profileId])]
  ELSE IF Exists(r.profiles, profileId)
       THEN [b EXCEPT !.activeProfileId = profileId, !.pending = TRUE]
       ELSE b
\* duplicateProfile(sourceId, newName): profiles is the list of the last render
duplicateProfile(r, b, sourceId, newName) ==
  IF ~Exists(r.profiles, sourceId) THEN b
  ELSE [b EXCEPT !.queue = Append(@, [kind |-> "append",
                                      profile |-> [FindProfile(r.profiles, sourceId) EXCEPT
                                                     !.id = generateUUID(b.created + 1),
                                                     !.name = newName,
                                                     !.isDefault = FALSE,
                                                     !.isReadOnly = FALSE]]),
                 !.created = @ + 1, !.pending = TRUE]

\* a call of a function of the context value (the arguments the function
\* does not take are left at a fixed value)
MakeCall(op, id, name, profile) == [op |-> op, id |-> id, name |-> name, profile |-> profile]
CreateCall(name) == MakeCall("createProfile", "", name, createDefaultProfile)
UpdateCall(profile) == MakeCall("updateProfile", "", "", profile)
DeleteCall(id) == MakeCall("deleteProfile", id, "", createDefaultProfile)
SetActiveCall(id) == MakeCall("setActiveProfile", id, "", createDefaultProfile)
DuplicateCall(id, name) == MakeCall("duplicateProfile", id, name, createDefaultProfile)

\* one call of a batch
Call(r, b, call) ==
  CASE call.op = "createProfile" -> createProfile(r, b, call.name)
    [] call.op = "updateProfile" -> updateProfile(r, b, call.profile)
    [] call.op = "deleteProfile" -> deleteProfile(r, b, call.id)
    [] call.op = "setActiveProfile" -> setActiveProfile(r, b, call.id)
    [] call.op = "duplicateProfile" -> duplicateProfile(r, b, call.id, call.name)
RECURSIVE CallAll(_, _, _)
CallAll(r, b, calls) ==
  IF calls = <<>> THEN b ELSE CallAll(r, Call(r, b, Head(calls)), Tail(calls))

\* the next render: the queued updaters run in order on the list
RunUpdater(ps, u) ==
  CASE u.kind = "append" -> [ps EXCEPT !.profiles = Append(@, u.profile)]
    [] u.kind = "map" ->
         [ps EXCEPT !.profiles = [i \in DOMAIN @ |->
                                    IF @[i].id = u.profile.id /\ ~@[i].isReadOnly
                                    THEN u.profile ELSE @[i]]]
    [] u.kind = "mapAny" ->
         [ps EXCEPT !.profiles = [i \in DOMAIN @ |->
                                    IF @[i].id = u.profile.id THEN u.profile ELSE @[i]]]
    [] u.kind = "filter" ->
         [ps EXCEPT !.profiles = SelectSeq(@, LAMBDA p : p.id # u.id)]
    [] u.kind = "check" ->
         IF Exists(ps.profiles, u.id) THEN [ps EXCEPT !.activeProfileId = u.id] ELSE ps
RECURSIVE RunQueue(_, _)
RunQueue(ps, queue) ==
  IF queue = <<>> THEN ps ELSE RunQueue(RunUpdater(ps, Head(queue)), Tail(queue))

\* the provider after the task that issued the calls and its render
AfterBatch(r, calls) ==
  RunQueue([profiles |-> r.profiles,
            activeProfileId |-> CallAll(r, NoBatch(r), calls).activeProfileId,
            created |-> CallAll(r, NoBatch(r), calls).created],
           CallAll(r, NoBatch(r), calls).queue)

\* the persist effect: the custom profiles as stored
PersistedProfiles(list) ==
  LET custom == SelectSeq(list, LAMBDA p : ~p.isDefault)
  IN [i \in DOMAIN custom |-> toStored(custom[i])]

\* generateUUID() calls of mergeWithDefaults on the first i stored profiles
\* (partial.id || generateUUID())
MissingIds(stored, i) == Len(SelectSeq(SubSeq(stored, 1, i), LAMBDA partial : partial.id = ""))
\* the profiles initializer: [defaultProfile, ...parsed.map(mergeWithDefaults)]
LoadProfiles(stored, n) ==
  <<createDefaultProfile>>
  \o [i \in DOMAIN stored |->
        mergeWithDefaults(stored[i], IF stored[i].id = "" THEN generateUUID(n + MissingIds(stored, i))
                                     ELSE stored[i].id)]
\* the variables of the scheduler that the provider's tasks leave alone
schedulerVars ==
  <<phase, currentSession, hitsCompleted, combosCompleted, mode, trainingType,
    numberOfSessions, sessionHistory, currentAction, sessionTotalHits, countdownValue,
    breakTimeRemaining, isReady, audioInit, timers, warningPlayed, planned,
    countdownTicks, warnings, isSupported, isLocked, wakeLockRef, sentinels,
    wakeRequests, wakeReleasing, visible, revoked, showStopConfirm, holdProgress,
    holdElapsed, trainingStartTime, trainingEndTime,
    preferences, storedPreferences, storedHistory, corrupt>>

\* a variant of LoadActive without the effect that validates the saved id
LoadActiveUnchecked(list, savedId) ==
  IF savedId = "" THEN DEFAULT_PROFILE_ID ELSE savedId

\* the activeProfileId initializer and the mount effect that validates it
\* (the persist effect has stored the initial id before it runs)
LoadActive(list, savedId) ==
  IF savedId = "" THEN DEFAULT_PROFILE_ID
  ELSE IF savedId # DEFAULT_PROFILE_ID /\ ~Exists(list, savedId) THEN DEFAULT_PROFILE_ID
  ELSE savedId

\* TrainingProvider: "refresh difficulty settings when active profile
\* changes" (activeProfile and difficulty follow the provider's new state)
RefreshDifficulty ==
  /\ activeProfile' = ActiveProfileOf(profiles', activeProfileId')
  /\ difficulty' = IF activeProfileId' # activeProfileId \/ activeProfile' # activeProfile
                   THEN activeProfile'.difficulties[difficulty.id]
                   ELSE difficulty

\* the task that issues the calls, its render and its effects
ProviderTask(calls, ev) ==
  /\ \E after \in {AfterBatch([profiles |-> profiles, activeProfileId |-> activeProfileId,
                                created |-> created], calls)} :
       /\ profiles' = after.profiles
       /\ activeProfileId' = after.activeProfileId
       /\ created' = after.created
  /\ storedProfiles' = PersistedProfiles(profiles')
  /\ storedActive' = activeProfileId'
  /\ RefreshDifficulty
  /\ lastEvent' = ev
  /\ UNCHANGED mounted
  /\ UNCHANGED schedulerVars
  /\ UNCHANGED sampled

\* the initial value of useLocalStorage('combat-reflex-preferences', {...})
initialPreferences ==
  [mode |-> "both", trainingType |-> "single", difficultyId |-> "normal", numberOfSessions |-> 2]

\* the application before ProfileProvider is mounted: the initial state of
\* trainingReducer, nothing loaded, and a localStorage that holds neither
\* preferences nor a history
ProviderUnmounted ==
  /\ TrainingIdle
  /\ isSupported = FALSE
  /\ WakeLockMounted
  /\ mode = "both"
  /\ trainingType = "single"
  /\ numberOfSessions = 2
  /\ difficulty = createDifficultySettings("normal")
  /\ activeProfile = createDefaultProfile
  /\ mounted = FALSE
  /\ profiles = <<>>
  /\ activeProfileId = ""
  /\ created = 0
  /\ editingProfile = <<>>
  /\ errors = <<>>
  /\ edits = 0
  /\ saves = 0
  /\ preferences = initialPreferences
  /\ storedPreferences = <<>>
  /\ storedHistory = <<>>
  /\ corrupt = {}

\* the variables the mount of the providers leaves alone
runtimeVars ==
  <<phase, currentSession, hitsCompleted, combosCompleted, currentAction, sessionTotalHits,
    countdownValue, breakTimeRemaining, isReady, audioInit, timers, warningPlayed, planned,
    countdownTicks, warnings, isSupported, isLocked, wakeLockRef, sentinels,
    wakeRequests, wakeReleasing, visible, revoked, showStopConfirm, holdProgress,
    holdElapsed, trainingStartTime, trainingEndTime>>

\* useLocalStorage: the initializer of storedValue. item is the parsed item
\* of the key (<<>>: getItem returns null); JSON.parse throws for the keys
\* in corrupt, and the catch returns initialValue
useLocalStorage(key, item, initialValue) ==
  IF key \in corrupt THEN initialValue
  ELSE IF item = <<>> THEN initialValue
  ELSE item[1]

\* the profiles item as the initializer of ProfileProvider parses it: the
\* catch leaves the default profile alone in the list
ParsedProfiles == IF "profiles" \in corrupt THEN <<>> ELSE storedProfiles

\* TrainingProvider: "load preferences on mount" (a missing or falsy field
\* is "" or 0 and dispatches nothing)
LoadMode(s, prefs) ==
  IF prefs.mode # "" THEN trainingReducer(s, "SET_MODE", prefs.mode) ELSE s
LoadTrainingType(s, prefs) ==
  IF prefs.trainingType # "" THEN trainingReducer(s, "SET_TRAINING_TYPE", prefs.trainingType)
  ELSE s
LoadDifficulty(s, prefs) ==
  IF prefs.difficultyId # "" THEN trainingReducer(s, "SET_DIFFICULTY_ID", prefs.difficultyId)
  ELSE s
LoadNumberOfSessions(s, prefs) ==
  IF prefs.numberOfSessions # 0
  THEN trainingReducer(s, "SET_NUMBER_OF_SESSIONS", prefs.numberOfSessions)
  ELSE s
loadPreferences(s, prefs) ==
  LoadNumberOfSessions(LoadDifficulty(LoadTrainingType(LoadMode(s, prefs), prefs), prefs), prefs)

\* TrainingProvider: "refresh difficulty settings when active profile
\* changes", as it runs: state is the state of the render r whose effects
\* run, not the state s the effects before it have dispatched
refreshDifficulty(r, s) ==
  trainingReducer(s, "SET_DIFFICULTY", getEffectiveSettings(r, r.difficulty.id))

\* the effects of TrainingProvider's first render r, in the order they are
\* declared. (When the effect of ProfileProvider that validates the active
\* id replaces it, the refresh runs once more on the state this leaves and
\* dispatches the settings that state already holds.)
mountEffects(r) == refreshDifficulty(r, loadPreferences(r, r.preferences))

\* the providers mount: the initializers of ProfileProvider and of
\* useLocalStorage, the mount effects of TrainingProvider, then the persist
\* effects of ProfileProvider and the effect that validates the active id
Mount ==
  /\ ~mounted
  /\ mounted' = TRUE
  /\ profiles' = LoadProfiles(ParsedProfiles, created)
  /\ activeProfileId' = LoadActive(profiles', storedActive)
  /\ created' = created + MissingIds(ParsedProfiles, Len(ParsedProfiles))
  /\ storedProfiles' = PersistedProfiles(profiles')
  /\ storedActive' = activeProfileId'
  /\ activeProfile' = ActiveProfileOf(profiles', activeProfileId')
  /\ preferences' = useLocalStorage("preferences", storedPreferences, initialPreferences)
  /\ sessionHistory' = useLocalStorage("history", storedHistory, <<>>)
  /\ \E after \in {mountEffects([Cur EXCEPT !.activeProfile = activeProfile',
                                             !.preferences = preferences',
                                             !.sessionHistory = sessionHistory'])} :
       /\ mode' = after.mode
       /\ trainingType' = after.trainingType
       /\ numberOfSessions' = after.numberOfSessions
       /\ difficulty' = after.difficulty
  /\ corrupt' = corrupt \ {"profiles"}
  /\ lastEvent' = "Mount"
  /\ UNCHANGED <<storedPreferences, storedHistory>>
  /\ UNCHANGED editorVars
  /\ UNCHANGED runtimeVars
  /\ UNCHANGED sampled

(***************************************************************************)
(* ProfileEditor (opened from ConfigScreen, which is rendered in IDLE)     *)
(***************************************************************************)
MaxProfiles == 1        \* generateUUID() calls in one behaviour
MaxEdits == 2           \* change handlers called while the editor is open
MaxSaves == 1           \* profiles saved from the editor in one behaviour

\* the leaves of a difficulty's settings
LeafNames ==
  {"minInterval", "maxInterval", "totalHits.min", "totalHits.max",
   "combo.comboSize.min", "combo.comboSize.max",
   "combo.strikeInterval.min", "combo.strikeInterval.max",
   "combo.restBetweenCombos.min", "combo.restBetweenCombos.max",
   "combo.totalCombos", "rest.enabled", "rest.breakDuration"}
\* DifficultyEditor: updateField / updateNestedField / updateRangeField
setLeaf(d, leaf, v) ==
  CASE leaf = "minInterval" -> [d EXCEPT !.minInterval = v]
    [] leaf = "maxInterval" -> [d EXCEPT !.maxInterval = v]
    [] leaf = "totalHits.min" -> [d EXCEPT !.totalHits.min = v]
    [] leaf = "totalHits.max" -> [d EXCEPT !.totalHits.max = v]
    [] leaf = "combo.comboSize.min" -> [d EXCEPT !.combo.comboSize.min = v]
    [] leaf = "combo.comboSize.max" -> [d EXCEPT !.combo.comboSize.max = v]
    [] leaf = "combo.strikeInterval.min" -> [d EXCEPT !.combo.strikeInterval.min = v]
    [] leaf = "combo.strikeInterval.max" -> [d EXCEPT !.combo.strikeInterval.max = v]
    [] leaf = "combo.restBetweenCombos.min" -> [d EXCEPT !.combo.restBetweenCombos.min = v]
    [] leaf = "combo.restBetweenCombos.max" -> [d EXCEPT !.combo.restBetweenCombos.max = v]
    [] leaf = "combo.totalCombos" -> [d EXCEPT !.combo.totalCombos = v]
    [] leaf = "rest.enabled" -> [d EXCEPT !.rest.enabled = v]
    [] leaf = "rest.breakDuration" -> [d EXCEPT !.rest.breakDuration = v]
\* handleDifficultyChange(index, updatedDifficulty)
handleDifficultyChange(profile, updatedDifficulty) ==
  [profile EXCEPT !.difficulties[updatedDifficulty.id] = updatedDifficulty]
\* handleNameChange
handleNameChange(profile, name) == [profile EXCEPT !.name = name]

\* a variant of handleSave that saves whatever validateProfile reports
handleSaveAlways(profile) == <<UpdateCall(profile)>>
\* handleSave: the calls it makes on the provider (none: the errors are shown)
handleSave(profile) ==
  IF Len(validateProfile(profile).errors) > 0 THEN <<>> ELSE <<UpdateCall(profile)>>

\* the difficulty the model edits, and the values typed into its inputs
\* (Number(e.target.value): the min and max attributes of the input do not
\* restrain what is typed): values below the recommended range, values that
\* invert a range, zero counts, a negative and a zero break
EditedId == "normal"
EditValues(leaf) ==
  CASE leaf = "minInterval" ->
         {RECOMMENDED_VALUES[EditedId].minInterval.min - 100,
          DIFFICULTIES[EditedId].maxInterval + 100}
    [] leaf = "maxInterval" -> {0}
    [] leaf = "totalHits.min" -> {0}
    [] leaf = "combo.comboSize.min" -> {COMBO_SETTINGS[EditedId].comboSize.max + 1}
    [] leaf = "combo.strikeInterval.min" -> {0}
    [] leaf = "combo.restBetweenCombos.max" -> {0}
    [] leaf = "combo.totalCombos" -> {0}
    [] leaf = "rest.breakDuration" -> {0 - 1000, 0}
    [] OTHER -> {}
EditNames == {" ", "My Profile"}

\* the Customize button: the editor opens on a deep clone of the active profile
OpenEditor ==
  /\ mounted /\ phase = "IDLE"
  /\ editingProfile = <<>>
  /\ saves < MaxSaves
  /\ editingProfile' = <<activeProfile>>
  /\ errors' = <<>>
  /\ edits' = 0
  /\ lastEvent' = "OpenEditor"
  /\ UNCHANGED <<mounted, profiles, activeProfileId, storedProfiles, storedActive, created,
                 saves, difficulty, activeProfile>>
  /\ UNCHANGED schedulerVars
  /\ UNCHANGED sampled

\* handleCreateEditable (shown for a read-only profile): createProfile and
\* setActiveProfile in one task; the editor's effect then takes the new
\* active profile
CreateEditable ==
  /\ editingProfile # <<>>
  /\ editingProfile[1].isReadOnly
  /\ created < MaxProfiles
  /\ ProviderTask(<<CreateCall("My Default"), SetActiveCall(generateUUID(created + 1))>>,
                  "CreateEditable")
  /\ editingProfile' = <<activeProfile'>>
  /\ errors' = <<>>
  /\ edits' = 0
  /\ UNCHANGED saves

ChangeName ==
  /\ editingProfile # <<>>
  /\ ~editingProfile[1].isReadOnly
  /\ edits < MaxEdits
  /\ \E name \in EditNames : editingProfile' = <<handleNameChange(editingProfile[1], name)>>
  /\ edits' = edits + 1
  /\ lastEvent' = "ChangeName"
  /\ UNCHANGED <<mounted, profiles, activeProfileId, storedProfiles, storedActive, created,
                 errors, saves, difficulty, activeProfile>>
  /\ UNCHANGED schedulerVars
  /\ UNCHANGED sampled

ChangeDifficulty ==
  /\ editingProfile # <<>>
  /\ ~editingProfile[1].isReadOnly
  /\ edits < MaxEdits
  /\ \E leaf \in LeafNames : \E v \in EditValues(leaf) :
       editingProfile' =
         <<handleDifficultyChange(editingProfile[1],
                                  setLeaf(editingProfile[1].difficulties[EditedId], leaf, v))>>
  /\ edits' = edits + 1
  /\ lastEvent' = "ChangeDifficulty"
  /\ UNCHANGED <<mounted, profiles, activeProfileId, storedProfiles, storedActive, created,
                 errors, saves, difficulty, activeProfile>>
  /\ UNCHANGED schedulerVars
  /\ UNCHANGED sampled

\* the Save button (rendered for an editable profile, enabled by hasChanges)
SaveProfile ==
  /\ editingProfile # <<>>
  /\ ~editingProfile[1].isReadOnly
  /\ edits > 0
  /\ IF handleSave(editingProfile[1]) = <<>>
     THEN /\ errors' = validateProfile(editingProfile[1]).errors
          /\ lastEvent' = "SaveProfile"
          /\ UNCHANGED <<mounted, profiles, activeProfileId, storedProfiles, storedActive,
                         created, editingProfile, edits, saves, difficulty, activeProfile>>
          /\ UNCHANGED schedulerVars
          /\ UNCHANGED sampled
     ELSE /\ ProviderTask(handleSave(editingProfile[1]), "SaveProfile")
          /\ editingProfile' = <<>>
          /\ saves' = saves + 1
          /\ UNCHANGED <<errors, edits>>

\* Cancel (changes discarded)
CancelEditor ==
  /\ editingProfile # <<>>
  /\ editingProfile' = <<>>
  /\ lastEvent' = "CancelEditor"
  /\ UNCHANGED <<mounted, profiles, activeProfileId, storedProfiles, storedActive, created,
                 errors, edits, saves, difficulty, activeProfile>>
  /\ UNCHANGED schedulerVars
  /\ UNCHANGED sampled

\* a browser with nothing stored
InitEditor ==
  /\ ProviderUnmounted
  /\ storedProfiles = <<>>
  /\ storedActive = ""

NextEditor ==
  \/ Mount
  \/ OpenEditor
  \/ CreateEditable
  \/ ChangeName
  \/ ChangeDifficulty
  \/ SaveProfile
  \/ CancelEditor

SpecEditor == InitEditor /\ [][NextEditor]_vars

(***************************************************************************)
(* The functions of the profile context, called in any order               *)
(***************************************************************************)
\* the id of a profile found in storage, and an id no profile has
StoredId == "stored-1"
UnknownId == "non-existent-id"
\* the ids the calls are made with
CustomIds == {StoredId, UnknownId} \cup {generateUUID(n) : n \in 1..MaxProfiles}
ProfileIds == {DEFAULT_PROFILE_ID} \cup CustomIds
\* the profile handed to updateProfile for an id
UpdatedProfile(id) ==
  IF id = DEFAULT_PROFILE_ID THEN [createDefaultProfile EXCEPT !.name = "Hacked"]
  ELSE [createNewProfile("Updated Name", id) EXCEPT !.difficulties["normal"].minInterval = 500]
\* the calls of the model
ProfileCalls ==
  {CreateCall("Test Profile")}
  \cup {DuplicateCall(id, "Copy") : id \in ProfileIds}
  \cup {SetActiveCall(id) : id \in ProfileIds}
  \cup {DeleteCall(id) : id \in ProfileIds}
  \cup {UpdateCall(UpdatedProfile(id)) : id \in ProfileIds}
\* generateUUID() calls a call can make
Creates(call) == IF call.op \in {"createProfile", "duplicateProfile"} THEN 1 ELSE 0

CreateProfile ==
  /\ mounted
  /\ created < MaxProfiles
  /\ ProviderTask(<<CreateCall("Test Profile")>>, "CreateProfile")
  /\ UNCHANGED editorVars

DuplicateProfile ==
  /\ mounted
  /\ created < MaxProfiles
  /\ \E id \in ProfileIds : ProviderTask(<<DuplicateCall(id, "Copy")>>, "DuplicateProfile")
  /\ UNCHANGED editorVars

SetActiveProfile ==
  /\ mounted
  /\ \E id \in ProfileIds : ProviderTask(<<SetActiveCall(id)>>, "SetActiveProfile")
  /\ UNCHANGED editorVars

DeleteProfile ==
  /\ mounted
  /\ \E id \in CustomIds : ProviderTask(<<DeleteCall(id)>>, "DeleteProfile")
  /\ UNCHANGED editorVars

UpdateProfile ==
  /\ mounted
  /\ \E id \in CustomIds : ProviderTask(<<UpdateCall(UpdatedProfile(id))>>, "UpdateProfile")
  /\ UNCHANGED editorVars

\* deleteProfile('default')
DeleteDefault ==
  /\ mounted
  /\ ProviderTask(<<DeleteCall(DEFAULT_PROFILE_ID)>>, "DeleteDefault")
  /\ UNCHANGED editorVars

\* updateProfile({...defaultProfile, name: 'Hacked'})
UpdateDefault ==
  /\ mounted
  /\ ProviderTask(<<UpdateCall(UpdatedProfile(DEFAULT_PROFILE_ID))>>, "UpdateDefault")
  /\ UNCHANGED editorVars

\* two calls in one task (one act(), one event handler): both use the
\* functions of the same render
ProfileBatch ==
  /\ mounted
  /\ \E first \in ProfileCalls : \E second \in ProfileCalls :
       /\ created + Creates(first) + Creates(second) <= MaxProfiles
       /\ ProviderTask(<<first, second>>, "ProfileBatch")
  /\ UNCHANGED editorVars

\* what localStorage holds before the provider mounts
InitProfiles ==
  /\ ProviderUnmounted
  /\ storedProfiles \in {<<>>, <<toStored(createNewProfile("Saved Profile", StoredId))>>}
  /\ storedActive \in {"", DEFAULT_PROFILE_ID, StoredId, UnknownId}

NextProfiles ==
  \/ Mount
  \/ CreateProfile
  \/ DuplicateProfile
  \/ SetActiveProfile
  \/ DeleteProfile
  \/ UpdateProfile
  \/ DeleteDefault
  \/ UpdateDefault
  \/ ProfileBatch

SpecProfiles == InitProfiles /\ [][NextProfiles]_vars

(***************************************************************************)
(* mergeWithDefaults on the stored profiles ProfileProvider loads          *)
(***************************************************************************)
\* A stored override of a range: missing, or an object whose min and max
\* are each missing or set. The values set are valid on their own (positive,
\* min <= max when both are set) and differ from the built-in ones.
PartialRanges(r) ==
  {Undefined} \cup
  {Some([min |-> lo, max |-> hi]) : lo \in {Undefined, Some(r.max + 1)},
                                    hi \in {Undefined, Some(r.max + 2)}}
\* the stored overrides of the combo object of one difficulty
PartialCombos(d) ==
  {Undefined} \cup
  {Some([comboSize |-> cs, strikeInterval |-> si, restBetweenCombos |-> rb,
         totalCombos |-> tc]) :
     cs \in PartialRanges(d.combo.comboSize),
     si \in PartialRanges(d.combo.strikeInterval),
     rb \in PartialRanges(d.combo.restBetweenCombos),
     tc \in {Undefined, Some(d.combo.totalCombos + 1)}}
\* the stored overrides of the rest object of one difficulty
PartialRests(d) ==
  {Undefined} \cup
  {Some([enabled |-> e, breakDuration |-> bd]) :
     e \in {Undefined, Some(~d.rest.enabled)},
     bd \in {Undefined, Some(d.rest.breakDuration + 1)}}
\* the stored overrides of one difficulty: every leaf and every nesting
\* level missing or set, the combo object varied with the other fields
\* missing and the other fields varied with the combo object missing
PartialDifficultiesOf(d) ==
  {[id |-> d.id, minInterval |-> lo, maxInterval |-> hi, totalHits |-> th,
    combo |-> Undefined, rest |-> r] :
     lo \in {Undefined, Some(d.maxInterval + 1)},
     hi \in {Undefined, Some(d.maxInterval + 2)},
     th \in PartialRanges(d.totalHits),
     r \in PartialRests(d)}
  \cup
  {[id |-> d.id, minInterval |-> Undefined, maxInterval |-> Undefined, totalHits |-> Undefined,
    combo |-> c, rest |-> Undefined] : c \in PartialCombos(d)}
PartialDifficulties(id) == PartialDifficultiesOf(createDefaultProfile.difficulties[id])
\* a stored profile that overrides one difficulty
PartialProfiles ==
  {[id |-> "custom-1", name |-> "Stored", isDefault |-> Undefined, isReadOnly |-> Undefined,
    difficulties |-> <<d>>] : d \in UNION {PartialDifficulties(id) : id \in DifficultyIds}}

InitMerge ==
  /\ ProviderUnmounted
  /\ storedProfiles \in {<<partial>> : partial \in PartialProfiles}
  /\ storedActive = "custom-1"

NextMerge == Mount

SpecMerge == InitMerge /\ [][NextMerge]_vars

(***************************************************************************)
(* The random generators, sampled on the settings of the active difficulty *)
(***************************************************************************)
\* validated ranges: integers, 0 < min <= max
SampledRanges == {Range(lo, lo + width) : lo \in 1..MaxLow, width \in 0..MaxWidth}

\* settings whose interval ranges are ms and whose count ranges are n
SampledSettings ==
  {[createDifficultySettings("normal") EXCEPT
      !.minInterval = ms.min, !.maxInterval = ms.max, !.totalHits = n,
      !.combo = [comboSize |-> n, strikeInterval |-> ms, restBetweenCombos |-> ms,
                 totalCombos |-> 1]] : ms \in SampledRanges, n \in SampledRanges}

Generators ==
  {"getRandomInterval", "getRandomComboSize", "getRandomStrikeInterval",
   "getRandomComboRest", "getRandomTotalHits"}

\* the call of the generator fn as the scheduler makes it, for the value u
\* of Math.random()
Generate(fn, u) ==
  CASE fn = "getRandomInterval" -> getRandomInterval(difficulty, u)
    [] fn = "getRandomComboSize" ->
         getRandomComboSize(getEffectiveComboSettings(Cur, difficulty.id), u)
    [] fn = "getRandomStrikeInterval" ->
         getRandomStrikeInterval(getEffectiveComboSettings(Cur, difficulty.id), u)
    [] fn = "getRandomComboRest" ->
         getRandomComboRest(getEffectiveComboSettings(Cur, difficulty.id), u)
    [] fn = "getRandomTotalHits" -> getRandomTotalHits(difficulty.totalHits, u)

\* the range of the settings the generator fn draws from
RangeOf(fn) ==
  CASE fn = "getRandomInterval" -> Range(difficulty.minInterval, difficulty.maxInterval)
    [] fn = "getRandomComboSize" -> difficulty.combo.comboSize
    [] fn = "getRandomStrikeInterval" -> difficulty.combo.strikeInterval
    [] fn = "getRandomComboRest" -> difficulty.combo.restBetweenCombos
    [] fn = "getRandomTotalHits" -> difficulty.totalHits

\* the application mounted with a profile of sampled settings active
InitRandom ==
  /\ TrainingIdle
  /\ isSupported = FALSE
  /\ WakeLockMounted
  /\ mode = "both"
  /\ trainingType = "single"
  /\ numberOfSessions = 2
  /\ difficulty \in SampledSettings
  /\ activeProfile = CustomProfile(difficulty)
  /\ mounted = TRUE
  /\ profiles = <<createDefaultProfile, activeProfile>>
  /\ activeProfileId = activeProfile.id
  /\ storedProfiles = <<toStored(activeProfile)>>
  /\ storedActive = activeProfile.id
  /\ created = 1
  /\ editingProfile = <<>>
  /\ errors = <<>>
  /\ edits = 0
  /\ saves = 0
  /\ preferences = initialPreferences
  /\ storedPreferences = <<>>
  /\ storedHistory = <<>>
  /\ corrupt = {}

\* a generator is called once for every value of Math.random()
Sample ==
  /\ \E fn \in Generators :
       sampled' = [fn |-> fn, results |-> {Generate(fn, u) : u \in RandomValues}]
  /\ lastEvent' = "Sample"
  /\ UNCHANGED <<mode, trainingType, numberOfSessions, difficulty, activeProfile,
                 sessionHistory>>
  /\ UNCHANGED runtimeVars
  /\ UNCHANGED profileVars
  /\ UNCHANGED storageVars

NextRandom == Sample

SpecRandom == InitRandom /\ [][NextRandom]_vars

(***************************************************************************)
(* Programs the user never stops, in which time passes and every timer     *)
(* that is due fires                                                       *)
(***************************************************************************)
NextLive ==
  \/ Tick
  \/ CountdownStart
  \/ CountdownTick
  \/ CountdownEnd
  \/ ActionTimer
  \/ DisplayTimer
  \/ ComboStart
  \/ StrikeTimer
  \/ ComboComplete
  \/ BreakTick
  \/ StartTraining
  \/ AudioReady

\* the browser's event loop runs every timer whose delay has passed, and
\* the clock goes on while a timer is pending
Fairness ==
  /\ WF_vars(Tick)
  /\ WF_vars(CountdownStart)
  /\ WF_vars(CountdownTick)
  /\ WF_vars(CountdownEnd)
  /\ WF_vars(ActionTimer)
  /\ WF_vars(DisplayTimer)
  /\ WF_vars(ComboStart)
  /\ WF_vars(StrikeTimer)
  /\ WF_vars(ComboComplete)
  /\ WF_vars(BreakTick)

SpecLive == Init /\ [][NextLive]_vars /\ Fairness

(***************************************************************************)
(* Programs of two single-mode sessions with a break between them          *)
(***************************************************************************)
\* rest.breakDuration values validateProfile accepts (it rejects only
\* negative ones): zero, one that rounds to zero seconds, one that rounds
\* up, and whole seconds
BreakDurations == {0, 400, 1500, 2000}

BreakSettings ==
  {[createDifficultySettings("very-easy") EXCEPT
      !.minInterval = Granule, !.maxInterval = Granule, !.totalHits = Range(1, 1),
      !.rest = [enabled |-> TRUE, breakDuration |-> ms]] : ms \in BreakDurations}

InitBreak ==
  /\ TrainingIdle
  /\ isSupported = FALSE
  /\ WakeLockMounted
  /\ mode = "punches"
  /\ trainingType = "single"
  /\ numberOfSessions = 2
  /\ difficulty \in BreakSettings
  /\ activeProfile = CustomProfile(difficulty)
  /\ mounted = TRUE
  /\ profiles = <<createDefaultProfile, activeProfile>>
  /\ activeProfileId = activeProfile.id
  /\ storedProfiles = <<toStored(activeProfile)>>
  /\ storedActive = activeProfile.id
  /\ created = 1
  /\ editingProfile = <<>>
  /\ errors = <<>>
  /\ edits = 0
  /\ saves = 0
  /\ preferences = [mode |-> mode, trainingType |-> trainingType,
                    difficultyId |-> difficulty.id, numberOfSessions |-> numberOfSessions]
  /\ storedPreferences = Stringify(preferences)
  /\ storedHistory = <<>>
  /\ corrupt = {}

NextBreak ==
  \/ Tick
  \/ CountdownStart
  \/ CountdownTick
  \/ CountdownEnd
  \/ ActionTimer
  \/ DisplayTimer
  \/ BreakTick
  \/ StartTraining
  \/ ConfirmStop
  \/ ChangeSettings

SpecBreak == InitBreak /\ [][NextBreak]_vars

(***************************************************************************)
(* The persistent store: what the providers read when they mount and what  *)
(* the setters of ConfigScreen and addToHistory write                      *)
(***************************************************************************)
\* the keys whose items are JSON text
JsonKeys == {"preferences", "history", "profiles"}

\* preferences a store may hold. "" and 0 stand for a field that is missing
\* or falsy; "unknown" and "invalid" are values the reducer rejects
StoredPreferences ==
  [mode : {"", "kicks", "invalid"}, trainingType : {"", "combo"},
   difficultyId : {"", "hard", "unknown"}, numberOfSessions : {0, 3}]

\* the values the buttons of ConfigScreen pass in the model
ConfigModes == {"both", "kicks"}
ConfigDifficulties == {"normal", "hard"}
ConfigSessions == {2, 3}

\* a history entry of a stored history, and the entries of a batch
StoredEntry(n) ==
  [mode |-> "punches", trainingType |-> "single", difficultyId |-> "normal",
   hitsCompleted |-> 1, totalHits |-> 1, combosCompleted |-> 0, totalCombos |-> 0,
   sessionNumber |-> n, totalSessions |-> 2]

\* what localStorage holds before the application mounts: every item is
\* missing, unparsable (its key in corrupt) or parsable
InitStorage ==
  /\ TrainingIdle
  /\ isSupported = FALSE
  /\ WakeLockMounted
  /\ mode = "both"
  /\ trainingType = "single"
  /\ numberOfSessions = 2
  /\ difficulty = createDifficultySettings("normal")
  /\ activeProfile = createDefaultProfile
  /\ mounted = FALSE
  /\ profiles = <<>>
  /\ activeProfileId = ""
  /\ created = 0
  /\ editingProfile = <<>>
  /\ errors = <<>>
  /\ edits = 0
  /\ saves = 0
  /\ preferences = initialPreferences
  /\ corrupt \in SUBSET JsonKeys
  /\ storedPreferences \in
       IF "preferences" \in corrupt THEN {<<>>}
       ELSE {<<>>} \cup {Stringify(prefs) : prefs \in StoredPreferences}
  /\ storedHistory \in
       IF "history" \in corrupt THEN {<<>>} ELSE {<<>>, Stringify(<<StoredEntry(1)>>)}
  /\ storedProfiles \in
       IF "profiles" \in corrupt THEN {<<>>}
       ELSE {<<>>, <<toStored(createNewProfile("Saved Profile", StoredId))>>}
  /\ storedActive \in {"", DEFAULT_PROFILE_ID, StoredId, UnknownId}

\* ConfigScreen: a difficulty button
SetDifficulty ==
  /\ mounted /\ phase = "IDLE"
  /\ \E id \in ConfigDifficulties :
       Commit(Flush(Cur, setDifficulty(Cur, Cur, id), NoDraws), "SetDifficulty")

\* ConfigScreen: a mode button
SetMode ==
  /\ mounted /\ phase = "IDLE"
  /\ \E m \in ConfigModes :
       Commit(Flush(Cur, setMode(Cur, Cur, m), NoDraws), "SetMode")

\* ConfigScreen: a training type button
SetTrainingType ==
  /\ mounted /\ phase = "IDLE"
  /\ \E type \in TRAINING_TYPES :
       Commit(Flush(Cur, setTrainingType(Cur, Cur, type), NoDraws), "SetTrainingType")

\* ConfigScreen: a sessions button
SetSessions ==
  /\ mounted /\ phase = "IDLE"
  /\ \E count \in ConfigSessions :
       Commit(Flush(Cur, setNumberOfSessions(Cur, Cur, count), NoDraws), "SetSessions")

\* two functional updates of the preferences in one task (one act(), one
\* event handler): both calls go through setValue of the same render
PreferenceBatch ==
  /\ mounted /\ phase = "IDLE"
  /\ \E m \in ConfigModes : \E type \in TRAINING_TYPES :
       /\ m # preferences.mode
       /\ type # preferences.trainingType
       /\ Commit(Flush(Cur, setTrainingType(Cur, setMode(Cur, Cur, m), type), NoDraws),
                 "PreferenceBatch")

\* two addToHistory calls in one task, through the function of one render
HistoryBatch ==
  /\ mounted /\ phase = "IDLE"
  /\ sessionHistory = <<>>
  /\ Commit(addToHistory(Cur, addToHistory(Cur, Cur, StoredEntry(1)), StoredEntry(2)),
            "HistoryBatch")

\* the page is loaded again: the providers unmount, the state of React is
\* gone and localStorage is kept
Reload ==
  /\ mounted /\ phase = "IDLE"
  /\ mounted' = FALSE
  /\ mode' = "both"
  /\ trainingType' = "single"
  /\ numberOfSessions' = 2
  /\ difficulty' = createDifficultySettings("normal")
  /\ activeProfile' = createDefaultProfile
  /\ profiles' = <<>>
  /\ activeProfileId' = ""
  /\ preferences' = initialPreferences
  /\ sessionHistory' = <<>>
  /\ lastEvent' = "Reload"
  /\ UNCHANGED <<storedProfiles, storedActive, created, storedPreferences, storedHistory, corrupt>>
  /\ UNCHANGED editorVars
  /\ UNCHANGED runtimeVars
  /\ UNCHANGED sampled

NextStorage ==
  \/ Mount
  \/ SetDifficulty
  \/ SetMode
  \/ SetTrainingType
  \/ SetSessions
  \/ PreferenceBatch
  \/ HistoryBatch
  \/ Reload

SpecStorage == InitStorage /\ [][NextStorage]_vars

(***************************************************************************)
(* Properties of the session scheduler                                     *)
(***************************************************************************)
\* the tasks that present a stimulus (setCurrentAction(action) and its sound)
StimulusEvents == {"ActionTimer", "StrikeTimer"}
TimersOfKind(kind) == {i \in DOMAIN timers : timers[i].kind = kind}

\* C1: a stop confirmed in TRAINING (single or combo) moves the phase to
\* COMPLETE in that very step, and while the program stays in COMPLETE no
\* task presents a stimulus.
C1_StopIsDirectAndSilent ==
  [][/\ (phase = "TRAINING" /\ lastEvent' = "ConfirmStop" => phase' = "COMPLETE")
     /\ (phase = "COMPLETE" /\ phase' = "COMPLETE" => lastEvent' \notin StimulusEvents)]_vars

\* a stopped first session (no history entry) in which time went on after the stop
C1_Witness ==
  /\ phase = "COMPLETE" /\ sessionHistory = <<>>
  /\ lastEvent = "DisplayTimer"

\* the phase whose code schedules the timers of a kind
PhaseOfTimer(kind) ==
  CASE kind \in {"cdStart", "cdTick", "cdEnd"} -> "COUNTDOWN"
    [] kind \in {"action", "display", "comboStart", "strike", "comboDone"} -> "TRAINING"
    [] OTHER -> "BREAK"

\* C2: every pending timer was scheduled by the phase the program is in
\* (no timer of a phase that has been exited is still pending).
C2_NoTimerOfExitedPhase ==
  \A i \in DOMAIN timers : PhaseOfTimer(timers[i].kind) = phase

\* the history entries of single-mode sessions
SingleEntries ==
  {i \in DOMAIN sessionHistory : sessionHistory[i].trainingType = "single"}

\* C3: in single mode the session goes on only while hitsCompleted is below
\* the sampled target, the session is recorded with hitsCompleted equal to
\* the target, and no inter-stimulus delay is pending once the session ended.
C3_SingleEndsAtTarget ==
  trainingType = "single" =>
    /\ phase = "TRAINING" => hitsCompleted < sessionTotalHits
    /\ \A i \in SingleEntries : sessionHistory[i].hitsCompleted = sessionHistory[i].totalHits
    /\ phase # "TRAINING" => TimersOfKind("action") = {}

\* C4: in combo mode the session goes on exactly while combosCompleted is
\* below the active profile's totalCombos, and it is recorded at that count.
C4_ComboEndsAtActiveTotal ==
  trainingType = "combo" =>
    LET total == getEffectiveComboSettings(Cur, difficulty.id).totalCombos
    IN /\ phase = "TRAINING" => combosCompleted < total
       /\ \A i \in DOMAIN sessionHistory : sessionHistory[i].combosCompleted = total

\* C5: a session that completes naturally leaves TRAINING for SESSION_END
\* (only a stop leaves TRAINING for another phase), and SESSION_END is
\* followed by BREAK when sessions remain and by COMPLETE otherwise.
C5_ThroughSessionEnd ==
  [][/\ (phase = "TRAINING" /\ phase' # "TRAINING" /\ lastEvent' # "ConfirmStop"
           => phase' = "SESSION_END")
     /\ (phase = "SESSION_END" /\ phase' # "SESSION_END" /\ lastEvent' # "ConfirmStop"
           => phase' = IF currentSession < numberOfSessions THEN "BREAK" ELSE "COMPLETE")]_vars

\* C6: with rest enabled the break is left only by the break tick that
\* counts down to zero, and it leads to COUNTDOWN with currentSession
\* incremented by one and both session counters at 0.
C6_BreakEndStartsNextSession ==
  [][phase = "BREAK" /\ phase' # "BREAK" =>
       /\ difficulty.rest.enabled
       /\ lastEvent' = "BreakTick" /\ breakTimeRemaining' = 0
       /\ phase' = "COUNTDOWN"
       /\ currentSession' = currentSession + 1
       /\ hitsCompleted' = 0 /\ combosCompleted' = 0]_vars

\* the countdown of the second session, right after the break ran out
C6_Witness ==
  /\ phase = "COUNTDOWN" /\ lastEvent = "BreakTick"
  /\ difficulty.rest.enabled
  /\ currentSession > 1 /\ hitsCompleted = 0 /\ combosCompleted = 0
  /\ sessionHistory # <<>> /\ sessionHistory[1].hitsCompleted > 0

\* C7: a stop appends exactly one history entry, which holds the counters
\* of the interrupted session at the moment of the stop.
C7_StopRecordsPartialSession ==
  [][lastEvent' = "ConfirmStop" =>
       /\ Len(sessionHistory') = Len(sessionHistory) + 1
       /\ sessionHistory'[1].hitsCompleted = hitsCompleted
       /\ sessionHistory'[1].combosCompleted = combosCompleted]_vars

\* C8: while the program stays in COMPLETE the counters keep their values.
C8_CountersFrozenInComplete ==
  [][phase = "COMPLETE" /\ phase' = "COMPLETE" =>
       hitsCompleted' = hitsCompleted /\ combosCompleted' = combosCompleted]_vars

\* C9: when a countdown completes (sampling, session start, TRAINING), the
\* countdown-tick notification has been given exactly three times since
\* COUNTDOWN was entered, the phase leaves COUNTDOWN, and no countdown timer
\* is left to complete the countdown a second time.
C9_ThreeTicksPerCountdown ==
  [][lastEvent' = "CountdownEnd" =>
       /\ countdownTicks = COUNTDOWN_FROM
       /\ phase = "COUNTDOWN" /\ phase' # "COUNTDOWN"
       /\ \A i \in DOMAIN timers' : PhaseOfTimer(timers'[i].kind) # "COUNTDOWN"]_vars

\* C10: a combo schedules between comboSize.min and comboSize.max strikes,
\* a display window that elapses adds exactly one hit, and combosCompleted is
\* incremented by one, when no strike's display window is still open.
C10_ComboCountsAfterLastStrike ==
  [][/\ (lastEvent' = "ComboStart" =>
           LET size == getEffectiveComboSettings(Cur, difficulty.id).comboSize
               strikes == {i \in DOMAIN timers' : timers'[i].kind = "strike"}
           IN Cardinality(strikes) \in size.min..size.max)
     /\ (lastEvent' = "DisplayTimer" => hitsCompleted' \in {hitsCompleted + 1, 0})
     /\ (lastEvent' = "ComboComplete" =>
           /\ TimersOfKind("display") = {}
           /\ combosCompleted' \in {combosCompleted + 1, 0})]_vars

\* the sum of the first n of the sampled strike intervals
RECURSIVE SumOfFirst(_, _)
SumOfFirst(gaps, n) == IF n = 0 THEN 0 ELSE SumOfFirst(gaps, n - 1) + gaps[n]

\* the strike timers of the combo in progress, in the order of the strikes
Strikes(ts) == SelectSeq(ts, LAMBDA t : t.kind = "strike")
\* the combo-complete timer of the combo in progress
ComboDoneTimer == timers[CHOOSE i \in DOMAIN timers : timers[i].kind = "comboDone"]

\* C11: when a combo is scheduled, its first strike is due at offset 0 and
\* its k-th strike at the sum of the first k-1 strike intervals, each sampled
\* from the configured range; with three strikes and the range [100,100] the
\* strikes fire 0, 100 and 200 ms after the combo's start (the combo-complete
\* timer, set to 200 + 300 ms at the start, is the clock).
C11_StrikeOffsets ==
  [][/\ (lastEvent' = "ComboStart" =>
           LET range == getEffectiveComboSettings(Cur, difficulty.id).strikeInterval
               n == Len(Strikes(timers'))
           IN /\ n >= 1
              /\ \E gaps \in [1..(n - 1) -> range.min..range.max] :
                   \A k \in 1..n : /\ Strikes(timers')[k].val = k
                                    /\ Strikes(timers')[k].left = SumOfFirst(gaps, k - 1))
     /\ (/\ lastEvent' = "StrikeTimer"
         /\ getEffectiveComboSettings(Cur, difficulty.id).comboSize = Range(3, 3)
         /\ getEffectiveComboSettings(Cur, difficulty.id).strikeInterval = Range(100, 100)
         => ComboDoneTimer.left = (200 + COMBO_DISPLAY_MS) - (DueTimer.val - 1) * 100)]_vars

\* the third strike of a combo of three has fired, 200 ms after the first
C11_Witness ==
  /\ lastEvent = "StrikeTimer" /\ phase = "TRAINING"
  /\ getEffectiveComboSettings(Cur, difficulty.id).strikeInterval = Range(100, 100)
  /\ Strikes(timers) = <<>>
  /\ \E i \in DOMAIN timers : timers[i].kind = "comboDone" /\ timers[i].left = COMBO_DISPLAY_MS

\* C12: with rest disabled, a session that ends with sessions remaining goes
\* through BREAK within the task that ends it: the phase is COUNTDOWN at
\* once, currentSession is incremented by exactly one, both session counters
\* are 0, no break timer is pending and no warning has been played; the
\* program is never observed in BREAK.
C12_RestDisabledSkipsBreak ==
  [][~difficulty.rest.enabled =>
       /\ phase' # "BREAK"
       /\ (/\ phase = "TRAINING" /\ phase' # "TRAINING" /\ lastEvent' # "ConfirmStop"
           /\ currentSession < numberOfSessions
           => /\ phase' = "COUNTDOWN"
              /\ currentSession' = currentSession + 1
              /\ hitsCompleted' = 0 /\ combosCompleted' = 0
              /\ \A i \in DOMAIN timers' : timers'[i].kind # "breakTick"
              /\ warnings' = 0 /\ warningPlayed' = warningPlayed
              /\ breakTimeRemaining' = breakTimeRemaining)]_vars

\* the countdown of the second session, entered by the task that ended the
\* first session of a program without rest
C12_Witness ==
  /\ ~difficulty.rest.enabled
  /\ phase = "COUNTDOWN" /\ lastEvent \in {"DisplayTimer", "ComboComplete"}
  /\ currentSession = 2 /\ hitsCompleted = 0 /\ combosCompleted = 0
  /\ sessionHistory # <<>> /\ sessionHistory[1].sessionNumber = 1

\* C13: a warning is played only at the moment exactly 5 seconds of the
\* break remain, at most once per break, and a counted-down break that
\* ends has played it exactly once.
C13_OneWarningAtFiveSeconds ==
  [][/\ (warnings' > warnings =>
           phase' = "BREAK" /\ breakTimeRemaining' = BREAK_WARNING_AT)
     /\ warnings' <= 1
     /\ (phase = "BREAK" /\ phase' # "BREAK" => warnings = 1)]_vars

\* the phases of a run in progress
ActivePhases == {"COUNTDOWN", "TRAINING", "MID_REST", "SESSION_END", "BREAK"}

\* C14: entering COUNTDOWN requests the wake lock, and in COMPLETE and in
\* IDLE, once no release is being processed, the page holds no wake lock.
C14_NoHoldAfterRun ==
  [][/\ (phase # "COUNTDOWN" /\ phase' = "COUNTDOWN" => wakeRequests' = wakeRequests + 1)
     /\ (phase' \in {"COMPLETE", "IDLE"} /\ ~wakeReleasing' => sentinels' = 0)]_vars

\* C15: when the page becomes visible during a run whose wake lock the
\* browser has revoked, the wake lock is requested again.
C15_ReacquiredWhenVisible ==
  [][lastEvent' = "PageVisible" /\ revoked /\ phase \in ActivePhases
       => wakeRequests' = wakeRequests + 1]_vars

\* C16: the history never holds more than MAX_HISTORY_ENTRIES entries,
\* however many sessions have been recorded.
C16_HistoryCapped == Len(sessionHistory) <= MAX_HISTORY_ENTRIES

\* more sessions have been recorded than the history holds
C16_Witness ==
  /\ planned > MAX_HISTORY_ENTRIES
  /\ Len(sessionHistory) = MAX_HISTORY_ENTRIES

\* C17: recording an entry e on a history h gives e followed by the first
\* min(|h|, MAX_HISTORY_ENTRIES - 1) entries of h in their order.
C17_NewestFirstOldestEvicted ==
  [][lastEvent' = "RecordSession" =>
       LET kept == IF Len(sessionHistory) < MAX_HISTORY_ENTRIES - 1
                   THEN Len(sessionHistory) ELSE MAX_HISTORY_ENTRIES - 1
       IN /\ Len(sessionHistory') = kept + 1
          /\ \A i \in 1..kept : sessionHistory'[i + 1] = sessionHistory[i]
          /\ \E type \in TRAINING_TYPES :
               sessionHistory'[1] = HistoryEntry([Cur EXCEPT !.trainingType = type], 0, 0, 0)]_vars

\* an entry has been recorded on a full history whose newest and oldest
\* entries were of different types
C17_Witness ==
  /\ planned > MAX_HISTORY_ENTRIES
  /\ lastEvent = "RecordSession"
  /\ sessionHistory[1].trainingType # sessionHistory[2].trainingType
  /\ sessionHistory[2].trainingType # sessionHistory[MAX_HISTORY_ENTRIES].trainingType

\* the documented state machine,
\*   IDLE -> COUNTDOWN -> TRAINING -> [MID_REST ->] SESSION_END -> BREAK -> (repeat) -> COMPLETE,
\* with the stop from a run in progress and the two ways out of COMPLETE
DocumentedTransitions ==
  {<<"IDLE", "COUNTDOWN">>, <<"COUNTDOWN", "TRAINING">>,
   <<"TRAINING", "MID_REST">>, <<"MID_REST", "TRAINING">>,
   <<"TRAINING", "SESSION_END">>, <<"MID_REST", "SESSION_END">>,
   <<"SESSION_END", "BREAK">>, <<"BREAK", "COUNTDOWN">>, <<"SESSION_END", "COMPLETE">>,
   <<"COMPLETE", "IDLE">>, <<"COMPLETE", "COUNTDOWN">>}
  \cup {<<p, "COMPLETE">> : p \in ActivePhases}

\* C20: a SET_PHASE request changes the phase only along a documented
\* transition; any other request leaves the training state as it was.
C20_InvalidTransitionRejected ==
  [][lastEvent' = "DispatchSetPhase" =>
       \/ <<phase, phase'>> \in DocumentedTransitions
       \/ Cur' = Cur]_vars

\* C19: the confirmation dialog of the stop appears only at an animation
\* frame of a hold that has lasted HOLD_MS since its press without a release;
\* a release sets the progress to 0 at once, ends the hold and changes
\* neither the phase nor the dialog; a press starts from 0, and the progress
\* shown is that of the time since this press alone; the stop itself is
\* confirmed in the dialog.
C19_StopNeedsFullHold ==
  [][/\ (showStopConfirm' /\ ~showStopConfirm =>
           lastEvent' = "HoldFrame" /\ holdElapsed >= HOLD_MS)
     /\ (lastEvent' = "StopRelease" =>
           /\ holdProgress' = 0 /\ holdElapsed' = -1
           /\ phase' = phase /\ showStopConfirm' = showStopConfirm)
     /\ (lastEvent' = "StopPress" => holdElapsed' = 0 /\ holdProgress' = 0 /\ phase' = phase)
     /\ (lastEvent' = "HoldFrame" /\ holdElapsed' >= 0 =>
           holdProgress' * HOLD_MS = holdElapsed * 100 /\ phase' = phase)
     /\ (lastEvent' = "ConfirmStopDialog" => showStopConfirm /\ phase' = "COMPLETE")]_vars

\* the dialog has just been opened by a full hold, in a session whose first
\* hit has been counted
C19_Witness ==
  /\ showStopConfirm /\ lastEvent = "HoldFrame"
  /\ phase = "TRAINING" /\ hitsCompleted = 1 /\ holdProgress = 0 /\ holdElapsed = -1

\* the stop gesture can be started, is under way, or waits in its dialog
StopAvailable == ENABLED StopPress \/ holdElapsed >= 0 \/ showStopConfirm

\* C18: in every phase of a run in progress a stop can be issued, and a
\* stop that is confirmed moves the program to COMPLETE.
C18_StopFromEveryActivePhase ==
  [][/\ (phase' \in ActivePhases => StopAvailable')
     /\ (lastEvent' = "ConfirmStopDialog" => phase' = "COMPLETE")]_vars

\* C21: 'train again' and 'change settings' leave COMPLETE with
\* currentSession = 1 and both counters 0, and with mode, trainingType,
\* difficulty and numberOfSessions as they were.
C21_ResetAllKeepsConfiguration ==
  [][lastEvent' \in {"TrainAgain", "ChangeSettings"} =>
       /\ phase = "COMPLETE" /\ phase' # "COMPLETE"
       /\ currentSession' = 1 /\ hitsCompleted' = 0 /\ combosCompleted' = 0
       /\ mode' = mode /\ trainingType' = trainingType
       /\ difficulty' = difficulty /\ numberOfSessions' = numberOfSessions]_vars

\* back in IDLE after a program of two sessions
C21_Witness ==
  /\ lastEvent = "ChangeSettings" /\ phase = "IDLE"
  /\ currentSession = 1 /\ numberOfSessions = 2
  /\ sessionHistory # <<>> /\ sessionHistory[1].sessionNumber = 2

\* the phases in which the first session of the program has begun
StartedPhases == {"TRAINING", "MID_REST", "SESSION_END", "BREAK", "COMPLETE"}

\* C22: once the first session of a program has begun, the start time held
\* is the one taken at the beginning of that program's first session, and
\* the results screen never subtracts a start or an end time of an earlier
\* program.
C22_TimesBelongToTheRun ==
  /\ (phase \in StartedPhases \/ currentSession > 1) =>
       trainingStartTime = [set |-> TRUE, run |-> "this", session |-> 1]
  /\ phase = "COMPLETE" => trainingEndTime.run # "earlier"

Leaf(d, leaf) ==
  CASE leaf = "minInterval" -> d.minInterval
    [] leaf = "maxInterval" -> d.maxInterval
    [] leaf = "totalHits.min" -> d.totalHits.min
    [] leaf = "totalHits.max" -> d.totalHits.max
    [] leaf = "combo.comboSize.min" -> d.combo.comboSize.min
    [] leaf = "combo.comboSize.max" -> d.combo.comboSize.max
    [] leaf = "combo.strikeInterval.min" -> d.combo.strikeInterval.min
    [] leaf = "combo.strikeInterval.max" -> d.combo.strikeInterval.max
    [] leaf = "combo.restBetweenCombos.min" -> d.combo.restBetweenCombos.min
    [] leaf = "combo.restBetweenCombos.max" -> d.combo.restBetweenCombos.max
    [] leaf = "combo.totalCombos" -> d.combo.totalCombos
    [] leaf = "rest.enabled" -> d.rest.enabled
    [] leaf = "rest.breakDuration" -> d.rest.breakDuration
\* a leaf of stored settings: Undefined when it or a level above it is missing
FieldOf(object, field) == IF object = Undefined THEN Undefined ELSE object[1][field]
StoredLeaf(c, leaf) ==
  CASE leaf = "minInterval" -> c.minInterval
    [] leaf = "maxInterval" -> c.maxInterval
    [] leaf = "totalHits.min" -> FieldOf(c.totalHits, "min")
    [] leaf = "totalHits.max" -> FieldOf(c.totalHits, "max")
    [] leaf = "combo.comboSize.min" ->
         FieldOf(FieldOf(c.combo, "comboSize"), "min")
    [] leaf = "combo.comboSize.max" ->
         FieldOf(FieldOf(c.combo, "comboSize"), "max")
    [] leaf = "combo.strikeInterval.min" ->
         FieldOf(FieldOf(c.combo, "strikeInterval"), "min")
    [] leaf = "combo.strikeInterval.max" ->
         FieldOf(FieldOf(c.combo, "strikeInterval"), "max")
    [] leaf = "combo.restBetweenCombos.min" ->
         FieldOf(FieldOf(c.combo, "restBetweenCombos"), "min")
    [] leaf = "combo.restBetweenCombos.max" ->
         FieldOf(FieldOf(c.combo, "restBetweenCombos"), "max")
    [] leaf = "combo.totalCombos" -> FieldOf(c.combo, "totalCombos")
    [] leaf = "rest.enabled" -> FieldOf(c.rest, "enabled")
    [] leaf = "rest.breakDuration" -> FieldOf(c.rest, "breakDuration")
\* the stored settings of difficulty id in a stored profile, every leaf
\* Undefined when the profile has none
StoredLeafOf(partial, id, leaf) ==
  IF FindDifficulty(partial.difficulties, id) = Undefined THEN Undefined
  ELSE StoredLeaf(FindDifficulty(partial.difficulties, id)[1], leaf)

\* the ranges of a difficulty's settings
RangesOf(d) ==
  {[min |-> d.minInterval, max |-> d.maxInterval], d.totalHits, d.combo.comboSize,
   d.combo.strikeInterval, d.combo.restBetweenCombos}
\* a stored profile in which every value set is positive (the break not
\* negative) and every range with both ends set has min <= max
ValidStoredRange(lo, hi) ==
  /\ lo # Undefined => lo[1] > 0
  /\ hi # Undefined => hi[1] > 0
  /\ (lo # Undefined /\ hi # Undefined) => lo[1] <= hi[1]
ValidPartial(partial) ==
  \A i \in DOMAIN partial.difficulties :
    LET c == partial.difficulties[i] IN
    /\ ValidStoredRange(c.minInterval, c.maxInterval)
    /\ ValidStoredRange(StoredLeaf(c, "totalHits.min"), StoredLeaf(c, "totalHits.max"))
    /\ ValidStoredRange(StoredLeaf(c, "combo.comboSize.min"), StoredLeaf(c, "combo.comboSize.max"))
    /\ ValidStoredRange(StoredLeaf(c, "combo.strikeInterval.min"),
                        StoredLeaf(c, "combo.strikeInterval.max"))
    /\ ValidStoredRange(StoredLeaf(c, "combo.restBetweenCombos.min"),
                        StoredLeaf(c, "combo.restBetweenCombos.max"))
    /\ ValidStoredRange(StoredLeaf(c, "combo.totalCombos"), Undefined)
    /\ StoredLeaf(c, "rest.breakDuration") # Undefined => StoredLeaf(c, "rest.breakDuration")[1] >= 0

\* C25: for every valid stored profile, partial overrides included, the
\* settings mergeWithDefaults returns and getEffectiveSettings hands out have
\* every range with min <= max (every field is present by construction).
C25_ResolvedRangesOrdered ==
  [][(lastEvent' = "Mount" /\ ValidPartial(storedProfiles[1])) =>
       \A id \in DifficultyIds :
         \A r \in RangesOf(profiles'[2].difficulties[id]) \cup
                  RangesOf(getEffectiveSettings([activeProfile |-> activeProfile'], id)) :
           r.min <= r.max]_vars

\* C26: mergeWithDefaults merges leaf by leaf: for each of the five
\* difficulties and every leaf the result holds the stored value when it is
\* set and the built-in value of that leaf otherwise, whichever nesting
\* level is missing.
C26_LeafByLeafMerge ==
  [][lastEvent' = "Mount" =>
       \A id \in DifficultyIds : \A leaf \in LeafNames :
         Leaf(profiles'[2].difficulties[id], leaf) =
           Nullish(StoredLeafOf(storedProfiles[1], id, leaf),
                   Leaf(createDefaultProfile.difficulties[id], leaf))]_vars
\* only comboSize.min and totalCombos of "hard" were stored
C26_Witness ==
  /\ lastEvent = "Mount"
  /\ profiles[2].difficulties["hard"].combo =
       [COMBO_SETTINGS["hard"] EXCEPT !.comboSize.min = COMBO_SETTINGS["hard"].comboSize.max + 1,
                                      !.totalCombos = @ + 1]
  /\ profiles[2].difficulties["hard"].minInterval = DIFFICULTIES["hard"].minInterval

(***************************************************************************)
(* Properties of validateProfile and ProfileEditor                         *)
(***************************************************************************)
\* settings without a defect: every range has positive ends and min <= max,
\* the count of combos is at least 1, the break is not negative
SettingsValid(d) ==
  /\ \A r \in RangesOf(d) : r.min > 0 /\ r.max > 0 /\ r.min <= r.max
  /\ d.combo.totalCombos >= 1
  /\ d.rest.breakDuration >= 0
\* a profile with a defect in the settings of some difficulty
Defective(profile) ==
  \E id \in DifficultyIds : ~SettingsValid(profile.difficulties[id])

\* C24: the difficulty parameters the scheduler consumes always pass error
\* validation: every range has min <= max, intervals are positive, counts
\* are at least 1, the break duration is not negative, and the active
\* profile they come from has no validateProfile error.
C24_ActiveSettingsValid ==
  mounted =>
    /\ SettingsValid(difficulty)
    /\ Len(validateProfile(activeProfile).errors) = 0

\* C27: validateProfile returns at least one error for every profile with a
\* defect in a range, a count or the break duration, and no error for a
\* profile without defect whose name is not empty (validateProfile as
\* handleSave calls it on the edited profile).
C27_ValidateProfileComplete ==
  [][lastEvent' = "SaveProfile" =>
       /\ Defective(editingProfile[1]) => Len(validateProfile(editingProfile[1]).errors) > 0
       /\ (~Defective(editingProfile[1]) /\ Trim(editingProfile[1].name) # "")
            => Len(validateProfile(editingProfile[1]).errors) = 0]_vars

\* C28: Save in the profile editor leaves the profile list and what is
\* stored unchanged when validateProfile reports at least one error, and
\* otherwise (warnings only, or nothing) replaces the edited profile in the
\* list and stores the list.
C28_SaveBlockedByErrorsOnly ==
  [][lastEvent' = "SaveProfile" =>
       IF Len(validateProfile(editingProfile[1]).errors) > 0
       THEN profiles' = profiles /\ storedProfiles' = storedProfiles
       ELSE /\ profiles' = [i \in DOMAIN profiles |->
                              IF profiles[i].id = editingProfile[1].id
                              THEN editingProfile[1] ELSE profiles[i]]
            /\ storedProfiles' = PersistedProfiles(profiles')]_vars
\* a profile with a warning (the interval below the recommended one) and no
\* error was saved and is the active one
C28_Witness ==
  /\ lastEvent = "SaveProfile"
  /\ editingProfile = <<>>
  /\ saves = 1
  /\ Len(validateProfile(activeProfile).warnings) > 0
  /\ Len(validateProfile(activeProfile).errors) = 0
  /\ storedProfiles = <<toStored(activeProfile)>>

(***************************************************************************)
(* Properties of the profile context                                       *)
(***************************************************************************)
\* C29: after any sequence of createProfile, duplicateProfile,
\* setActiveProfile and deleteProfile calls, calls of one task included,
\* and after loading from storage, activeProfileId names a profile that is
\* in the profile list.
C29_ActiveIdInList ==
  mounted => Exists(profiles, activeProfileId)

\* C30: the default profile is immutable: updateProfile with the default
\* profile's id and deleteProfile with the default id leave the profile
\* list (and what is stored) unchanged, and after any sequence of profile
\* operations the list contains exactly one profile with the default id,
\* the built-in default profile.
C30_DefaultImmutable ==
  [][/\ lastEvent' \in {"UpdateDefault", "DeleteDefault"}
          => profiles' = profiles /\ storedProfiles' = storedProfiles
     /\ mounted' =>
          /\ Exists(profiles', DEFAULT_PROFILE_ID)
          /\ \A i \in DOMAIN profiles' :
               profiles'[i].id = DEFAULT_PROFILE_ID => profiles'[i] = createDefaultProfile]_vars
\* updateProfile({...defaultProfile, name: 'Hacked'}) with custom profiles
\* in the list, one of them the active one
C30_Witness ==
  /\ lastEvent = "UpdateDefault"
  /\ Len(profiles) = 1 + MaxProfiles
  /\ profiles[1] = createDefaultProfile
  /\ activeProfileId # DEFAULT_PROFILE_ID

(***************************************************************************)
(* Properties of the persistent store                                      *)
(***************************************************************************)
\* an item that cannot be read: missing, or text JSON.parse rejects
Unreadable(key, item) == key \in corrupt \/ item = <<>>

\* C31: when the providers mount, persisted data that is missing or
\* unparsable is treated as absent and the built-in default is used: the
\* initial preferences, an empty history, the default profile alone in the
\* list, and the default profile active when the saved id is missing or
\* names no profile of the list.
C31_UnreadableFallsBack ==
  [][(~mounted /\ mounted') =>
       /\ Unreadable("preferences", storedPreferences) => preferences' = initialPreferences
       /\ Unreadable("history", storedHistory) => sessionHistory' = <<>>
       /\ Unreadable("profiles", storedProfiles) => profiles' = <<createDefaultProfile>>
       /\ (storedActive = "" \/ \A i \in DOMAIN profiles' : profiles'[i].id # storedActive)
            => /\ activeProfileId' = DEFAULT_PROFILE_ID
               /\ activeProfile' = createDefaultProfile
               /\ storedActive' = DEFAULT_PROFILE_ID]_vars

\* the providers have mounted on a store whose preferences and history are
\* unparsable and whose profiles are missing
C31_Witness ==
  /\ lastEvent = "Mount"
  /\ mounted
  /\ {"preferences", "history"} \subseteq corrupt
  /\ preferences = initialPreferences
  /\ sessionHistory = <<>>
  /\ profiles = <<createDefaultProfile>>
  /\ activeProfileId = DEFAULT_PROFILE_ID


\* C38: when the providers mount on a store whose preferences setDifficulty(d)
\* has written, the difficulty of the training state has id d.
C38_DifficultyRoundTrip ==
  (/\ lastEvent = "Mount"
   /\ "preferences" \notin corrupt
   /\ storedPreferences # <<>>
   /\ storedPreferences[1].difficultyId \in DifficultyIds)
  => difficulty.id = storedPreferences[1].difficultyId

\* C39: setValue of useLocalStorage behaves like the setter of useState for
\* functional updates: of two updates issued in one task the second sees
\* the result of the first, so neither is lost, and after every setValue
\* the stored item equals the value in memory.
C39_FunctionalUpdates ==
  /\ lastEvent = "PreferenceBatch" =>
       /\ preferences.mode = mode
       /\ preferences.trainingType = trainingType
  /\ lastEvent = "HistoryBatch" => Len(sessionHistory) = 2
  /\ lastEvent \in {"PreferenceBatch", "SetMode", "SetTrainingType", "SetDifficulty",
                     "SetSessions"}
       => storedPreferences = Stringify(preferences)
  /\ lastEvent = "HistoryBatch" => storedHistory = Stringify(sessionHistory)

(***************************************************************************)
(* Properties of the random generators                                     *)
(***************************************************************************)
\* C32: over a validated range [min, max] every generator returns only
\* integers r with min <= r <= max, every integer of the range is a
\* possible result, and the result is min when min = max: the results over
\* all values of Math.random() are exactly min..max.
C32_DrawsCoverRange ==
  sampled.fn \in Generators =>
    /\ sampled.results = RangeOf(sampled.fn).min..RangeOf(sampled.fn).max
    /\ RangeOf(sampled.fn).min = RangeOf(sampled.fn).max
         => sampled.results = {RangeOf(sampled.fn).min}

\* getRandomInterval has been sampled on the widest range of the model and
\* has returned each of its values
C32_Witness ==
  /\ sampled.fn = "getRandomInterval"
  /\ difficulty.maxInterval - difficulty.minInterval = MaxWidth
  /\ Cardinality(sampled.results) = MaxWidth + 1


(***************************************************************************)
(* Properties of the results screen                                        *)
(***************************************************************************)
\* C33: the completion rate shown is round(hitsCompleted / totalHits x 100),
\* and 0 whenever totalHits is 0; 20 of 30 gives 67. On the results screen
\* hitsCompleted is the counter of the state and totalHits the sum of the
\* history's totalHits.
C33_CompletionRate ==
  /\ completionRate(20, 30) = 67
  /\ phase = "COMPLETE" =>
       ResultsCompletionRate(Cur) =
         IF totalExpectedHits(sessionHistory, Len(sessionHistory)) = 0 THEN 0
         ELSE MathRound(hitsCompleted * 100,
                        totalExpectedHits(sessionHistory, Len(sessionHistory)))


(***************************************************************************)
(* Properties of the history and the results of a completed program        *)
(***************************************************************************)
\* a task that ends a program by natural completion
CompletesNaturally ==
  phase # "COMPLETE" /\ phase' = "COMPLETE" /\ lastEvent' # "ConfirmStop"

\* the sum of hitsCompleted over the first n entries of a history
RECURSIVE HitsOfEntries(_, _)
HitsOfEntries(history, n) ==
  IF n = 0 THEN 0 ELSE HitsOfEntries(history, n - 1) + history[n].hitsCompleted

\* C35: a program that runs to natural completion has appended one entry
\* per session: every recording appends exactly one entry, that of the
\* current session, a single-mode entry has hitsCompleted equal to its
\* totalHits, and at completion the newest numberOfSessions entries are
\* those of the sessions numberOfSessions, ..., 1, each session once.
C35_OneEntryPerSession ==
  [][/\ (sessionHistory' # sessionHistory =>
           /\ sessionHistory' = <<sessionHistory'[1]>> \o sessionHistory
           /\ sessionHistory'[1].sessionNumber = currentSession
           /\ sessionHistory'[1].totalSessions = numberOfSessions
           /\ (trainingType = "single"
                => sessionHistory'[1].hitsCompleted = sessionHistory'[1].totalHits))
     /\ (CompletesNaturally =>
           /\ Len(sessionHistory') >= numberOfSessions
           /\ \A k \in 1..numberOfSessions :
                sessionHistory'[k].sessionNumber = numberOfSessions - k + 1)]_vars

\* C36: in combo mode a session is recorded, and TRAINING is left by
\* natural completion, only when every strike fired has been counted: no
\* display window of a strike is still open, so the entry's hitsCompleted
\* is the number of strikes fired in the session.
C36_RecordedAfterLastHit ==
  [][trainingType = "combo" =>
       /\ (sessionHistory' # sessionHistory => TimersOfKind("display") = {})
       /\ (phase = "TRAINING" /\ phase' # "TRAINING" /\ lastEvent' # "ConfirmStop"
            => TimersOfKind("display") = {})]_vars

\* C37: when a single-mode program completes naturally, the results
\* summary reports a completion rate of 100 and a hit count equal to the
\* sum of the hits of the sessions of that run, whatever the number of
\* sessions and the entries earlier runs have left.
C37_ResultsOfTheRun ==
  [][trainingType = "single" /\ CompletesNaturally =>
       /\ ResultsCompletionRate([sessionHistory |-> sessionHistory',
                                 hitsCompleted |-> hitsCompleted']) = 100
       /\ Len(sessionHistory') >= numberOfSessions
       /\ hitsCompleted' = HitsOfEntries(sessionHistory', numberOfSessions)]_vars

(***************************************************************************)
(* Properties of the break                                                 *)
(***************************************************************************)
\* C40: with rest enabled the break counts down the configured
\* breakDuration, rounded to whole seconds: a break that is entered starts
\* at that number of seconds, every tick of the break takes one second off,
\* and a duration that rounds to 0 (breakDuration = 0 included) gives a
\* break of no length: the program is never observed in BREAK.
C40_BreakCountsConfiguredDuration ==
  [][difficulty.rest.enabled =>
       /\ (phase # "BREAK" /\ phase' = "BREAK"
            => breakTimeRemaining' = RoundSeconds(difficulty.rest.breakDuration))
       /\ (RoundSeconds(difficulty.rest.breakDuration) = 0 => phase' # "BREAK")
       /\ (lastEvent' = "BreakTick" => breakTimeRemaining' = breakTimeRemaining - 1)]_vars


(***************************************************************************)
(* Liveness of the scheduler                                               *)
(***************************************************************************)
\* C34: a started program that the user never stops and whose timers all
\* fire eventually reaches COMPLETE.
C34_EventuallyComplete == (phase = "COUNTDOWN") ~> (phase = "COMPLETE")

=============================================================================
